---- MODULE Spec2Model ----
(***************************************************************************)
(* Model of the openroad multiplayer driving game: the socket.io relay     *)
(* (server), the browser clients' multiplayer / collectibles managers and  *)
(* the game engine's off-track recovery and remote-actor interpolation.    *)
(*                                                                         *)
(* The specifications share the variables below:                           *)
(*   SpecRelay    the relay's registry handlers under arbitrary events     *)
(*   SpecLedger   the relay's collectible ledger under arbitrary events    *)
(*   SpecFlags    the relay's stored flags against what each socket sent   *)
(*   SpecGame     two clients picking up collectibles through the relay    *)
(*   SpecTrack    one client's off-track recovery, bombs and timers        *)
(*   SpecLerp     one client's interpolation of its remote actors          *)
(*   SpecOnTrack  one client's on-track classification of the car          *)
(*   SpecHeight   one client's ride height over the distance to the track  *)
(*   SpecOverlap  one client's overlap tests over distances and radii      *)
(*   SpecRegistry the relay's registry under every handler that reads it   *)
(*   SpecCollide  one client's car against another car, through the relay  *)
(*   SpecSweep    one client's car against trees, collectibles and traps   *)
(*   SpecRoster   one client's remote actors as others join, move, leave   *)
(*   SpecHeading  one client's interpolation of a remote actor's heading   *)
(*   SpecShield   one client's shield as it collects shields and coins     *)
(*   SpecSend     one client's movement messages and the relay's copy      *)
(*   SpecRejoin   one client's cars and labels over joins and leaves       *)
(*   SpecLateJoin a client that joins a running game                      *)
(*   SpecSendLive SpecSend with frames, relay and clock that keep going    *)
(***************************************************************************)
EXTENDS Integers, Sequences, FiniteSets, TLC

VARIABLES
    \* ---- relay (server) ----
    players,            \* const players = {}: socket id -> player entry
    collectiblesState,  \* gameState.collectiblesState: key -> ledger entry
    sockets,            \* socket id -> "idle" | "connected" | "closed"
    emitted,            \* what the last relay handler emitted: {[event, payload, to]}
    handled,            \* the event the last relay handler received
    lastSent,           \* per socket, the last flag values it sent while joined
    now,                \* Date.now(), in ms
    \* ---- clients: collectibles ----
    collected,          \* per client and spawned item: collectible.collected
    respawnTimers,      \* per client: pending setTimeout(respawnCollectible) calls
    playerScore,        \* per client: CollectiblesManager.playerScore
    upstream,           \* per client: messages sent to the relay, not yet handled
    inbox,              \* per client: messages from the relay, not yet handled
    awardedAt,          \* per item and client: when the client last scored it, or -1
    \* ---- one client's game engine: off-track recovery ----
    canResetCar,        \* GameEngine.canResetCar
    offTrackStartTime,  \* GameEngine.offTrackStartTime, -1 for null
    controlsDisabled,   \* GameEngine.controlsDisabled
    controlsDisabledTimeout, \* when the pending re-enable timer is due, -1 for none
    cooldownTimers,     \* when the pending "canResetCar = true" timers are due
    carRegion,          \* where the car is: "start" | "track" | "off"
    bombsRemaining,     \* GameEngine.bombsRemaining
    bombs,              \* GameEngine.bombs.length: active bombs on the ground
    offTrackResets,     \* the times of the off-track relocations so far
    offTrackRun,        \* the frames' classifications: the run of off-track frames
    \* ---- one client's remote actors ----
    otherPlayers,       \* MultiplayerManager.otherPlayers: id -> position, target
    previous,           \* id -> position before the last interpolation tick
    otherPlayersData,   \* MultiplayerManager.otherPlayersData: id -> playerInfo
    loading,            \* pending loader callbacks of loadOtherPlayerCar
    \* ---- one client's car in the scene ----
    carPosition,        \* car.position, horizontal: [x, z] in tenths of a unit
    onTrack,            \* what the last isCarOnTrack call was given and returned
    carY,               \* car.position.y, in 1/3000 of a unit
    height,             \* what the last adjustCarHeight call found and targeted
    overlap,            \* what the last overlap test was given and decided
    sweep,              \* per category, how many overlaps the last frame handled,
                        \* and the order in which it ran the checks
    \* ---- one client, further fields ----
    remoteHeading,      \* a remote actor's rotation.y, its targetRotation.y and
                        \* the rotDiff of the last tick, in 1/20 of pi
    playerShield,       \* CollectiblesManager.playerShield
    shieldBar,          \* the width the manager last gave the shield bar, in
                        \* percent: a set of at most one number
    lastUpdateTime,     \* MultiplayerManager.lastUpdateTime, in ms
    movementSent,       \* the playerMovement messages sent so far: the time of
                        \* the last, the gap between the last two, and whether
                        \* a call of emitPlayerMovement has sent nothing
    inputReleased,      \* the driver has let go of the keys for good
    rendered            \* per remote id, how many of its cars are in the scene
                        \* and how many of its name labels in the document

relayVars == <<players, collectiblesState, sockets, emitted, handled>>

gameVars == <<collected, respawnTimers, playerScore, upstream, inbox, awardedAt>>

engineVars == <<canResetCar, offTrackStartTime, controlsDisabled,
                controlsDisabledTimeout, cooldownTimers, carRegion,
                bombsRemaining, bombs, offTrackResets, offTrackRun>>

remoteVars == <<otherPlayers, previous, otherPlayersData, loading>>

onTrackVars == <<carPosition, onTrack>>
heightVars == <<carY, height>>
hitVars == <<overlap, sweep>>
sceneVars == <<onTrackVars, heightVars, hitVars>>

shieldVars == <<playerShield, shieldBar>>
sendVars == <<lastUpdateTime, movementSent, inputReleased>>
renderVars == <<rendered>>
furtherVars == <<remoteHeading, shieldVars, sendVars, renderVars>>

\* everything the relay's handlers leave alone
clientVars == <<gameVars, engineVars, remoteVars, sceneVars, furtherVars>>

\* everything but one group of the clients' variables
notGameVars == <<engineVars, remoteVars, sceneVars, furtherVars>>

notEngineVars == <<gameVars, remoteVars, sceneVars, furtherVars>>

notRemoteVars == <<gameVars, engineVars, sceneVars, furtherVars>>

notSceneVars == <<gameVars, engineVars,
                 remoteVars, furtherVars>>

vars == <<players, collectiblesState, sockets, emitted, handled, lastSent, now,
          collected, respawnTimers, playerScore, upstream, inbox, awardedAt,
          canResetCar, offTrackStartTime, controlsDisabled,
          controlsDisabledTimeout, cooldownTimers, carRegion,
          bombsRemaining, bombs, offTrackResets, offTrackRun, otherPlayers,
          previous, otherPlayersData, loading,
          carPosition, onTrack, carY, height, overlap, sweep, remoteHeading,
          playerShield, shieldBar, lastUpdateTime, movementSent,
          inputReleased, rendered>>

----------------------------------------------------------------------------
(* Bounds and input sets *)

\* socket.io connection ids; an id is never reused after its socket closes
Sockets == {"s1", "s2", "s3"}

\* how many clock steps a run of the relay takes
MaxRelayTicks == 2

\* one clock step of the relay runs, in ms
RelayTickMs == 1000

VehicleIds == {"sports-car", "truck"}

\* transforms a client reports: {position, rotation:{y}}; one coordinate stands
\* for the position vector
Transforms == {[position |-> 0, rotation |-> 0], [position |-> 10, rotation |-> 1]}

----------------------------------------------------------------------------
(* JavaScript values that travel as item ids: numbers and strings are      *)
(* different under ===, and an object key is the value's text.             *)

JsNumber(text) == [type |-> "number", text |-> text]

JsString(text) == [type |-> "string", text |-> text]

\* JS truthiness of an id: 0 and "" are falsy
Truthy(v) == ~(v.type = "number" /\ v.text = "0") /\ ~(v.type = "string" /\ v.text = "")

\* obj[v]: property keys are strings
PropertyKey(v) == v.text

\* item ids clients send: a spawn index, or the 'collectible-<random>' string
ItemIds == {JsNumber("1"), JsString("collectible-7")}

----------------------------------------------------------------------------
(* The relay: src/unnamed/part_001 (server.js)                             *)

Joined == DOMAIN players

\* socket.broadcast.emit: every connected socket except the sender
BroadcastTargets(s) == {o \in Sockets \ {s} : sockets[o] = "connected"}

\* io.emit: every connected socket
AllTargets == {o \in Sockets : sockets[o] = "connected"}

Msg(event, payload, to) == [event |-> event, payload |-> payload, to |-> to]

Broadcast(s, event, payload) == {Msg(event, payload, o) : o \in BroadcastTargets(s)}

\* gameState object sent on join
GameStatePayload(ledger) == [collectiblesState |-> ledger]

\* io.on('connection')
Connect(s) ==
    /\ sockets[s] = "idle"
    /\ sockets' = [sockets EXCEPT ![s] = "connected"]
    /\ emitted' = {}
    /\ handled' = [event |-> "connection", from |-> s]
    /\ UNCHANGED <<players, collectiblesState>>

\* (mutant) the snapshot is sent before the joiner is registered
OnPlayerJoinSnapshotFirst(s, playerData) ==
    /\ players' = (s :> [id |-> s,
                         vehicleId |-> playerData.vehicleId,
                         position |-> playerData.position,
                         rotation |-> playerData.rotation,
                         headlightsOn |-> TRUE])
                  @@ players
    /\ emitted' = {Msg("currentPlayers", players, s)}
                  \cup Broadcast(s, "newPlayer", players'[s])
                  \cup {Msg("gameState", GameStatePayload(collectiblesState), s)}
    /\ handled' = [event |-> "playerJoin", from |-> s, data |-> playerData]
    /\ UNCHANGED <<collectiblesState, sockets>>

\* socket.on('playerJoin')
OnPlayerJoin(s, playerData) ==
    /\ players' = (s :> [id |-> s,
                         vehicleId |-> playerData.vehicleId,
                         position |-> playerData.position,
                         rotation |-> playerData.rotation,
                         headlightsOn |-> TRUE])
                  @@ players
    /\ emitted' = {Msg("currentPlayers", players', s)}
                  \cup Broadcast(s, "newPlayer", players'[s])
                  \cup {Msg("gameState", GameStatePayload(collectiblesState), s)}
    /\ handled' = [event |-> "playerJoin", from |-> s, data |-> playerData]
    /\ UNCHANGED <<collectiblesState, sockets>>

\* socket.on('headlightsToggle')
OnHeadlightsToggle(s, data) ==
    /\ IF s \in Joined
       THEN /\ players' = [players EXCEPT ![s].headlightsOn = data.headlightsOn]
            /\ emitted' = Broadcast(s, "headlightsToggled",
                                    [id |-> s, headlightsOn |-> data.headlightsOn])
       ELSE /\ emitted' = {}
            /\ UNCHANGED players
    /\ handled' = [event |-> "headlightsToggle", from |-> s, data |-> data]
    /\ UNCHANGED <<collectiblesState, sockets>>

\* (mutant) the heading is forwarded but not stored
OnPlayerMovementDropsRotation(s, movementData) ==
    /\ IF s \in Joined
       THEN /\ players' = [players EXCEPT ![s].position = movementData.position]
            /\ emitted' = Broadcast(s, "playerMoved",
                                    [id |-> s,
                                     position |-> movementData.position,
                                     rotation |-> movementData.rotation])
       ELSE /\ emitted' = {}
            /\ UNCHANGED players
    /\ handled' = [event |-> "playerMovement", from |-> s, data |-> movementData]
    /\ UNCHANGED <<collectiblesState, sockets>>

\* socket.on('playerMovement')
OnPlayerMovement(s, movementData) ==
    /\ IF s \in Joined
       THEN /\ players' = [players EXCEPT ![s].position = movementData.position,
                                          ![s].rotation = movementData.rotation]
            /\ emitted' = Broadcast(s, "playerMoved",
                                    [id |-> s,
                                     position |-> players'[s].position,
                                     rotation |-> players'[s].rotation])
       ELSE /\ emitted' = {}
            /\ UNCHANGED players
    /\ handled' = [event |-> "playerMovement", from |-> s, data |-> movementData]
    /\ UNCHANGED <<collectiblesState, sockets>>

\* socket.on('vehicleChange')
OnVehicleChange(s, vehicleData) ==
    /\ IF s \in Joined
       THEN /\ players' = [players EXCEPT ![s].vehicleId = vehicleData.vehicleId]
            /\ emitted' = Broadcast(s, "playerVehicleChanged",
                                    [id |-> s, vehicleId |-> vehicleData.vehicleId])
       ELSE /\ emitted' = {}
            /\ UNCHANGED players
    /\ handled' = [event |-> "vehicleChange", from |-> s, data |-> vehicleData]
    /\ UNCHANGED <<collectiblesState, sockets>>

\* socket.on('hornSound')
OnHornSound(s) ==
    /\ emitted' = IF s \in Joined
                  THEN Broadcast(s, "playerHornSound", [id |-> s])
                  ELSE {}
    /\ handled' = [event |-> "hornSound", from |-> s]
    /\ UNCHANGED <<players, collectiblesState, sockets>>

\* (mutant) the notification is sent without looking the target up
OnCarCollisionUnchecked(s, collisionData) ==
    /\ IF s \in Joined
       THEN /\ players' = [players EXCEPT ![s].position = collisionData.position]
            /\ emitted' =
                 {Msg("playerCollidedWithYou",
                      [id |-> s, position |-> players'[s].position],
                      collisionData.collidedWithId)}
                 \cup Broadcast(s, "playersCollided",
                                [player1 |-> s,
                                 player2 |-> collisionData.collidedWithId,
                                 position |-> players'[s].position])
       ELSE /\ emitted' = {}
            /\ UNCHANGED players
    /\ handled' = [event |-> "carCollision", from |-> s, data |-> collisionData]
    /\ UNCHANGED <<collectiblesState, sockets>>

\* (mutant) the reported position is stored on the entry of the participant
\* that was hit
OnCarCollisionMovesOther(s, collisionData) ==
    /\ IF s \in Joined
       THEN /\ players' = IF collisionData.collidedWithId \in Joined
                          THEN [players EXCEPT ![collisionData.collidedWithId].position =
                                                   collisionData.position]
                          ELSE players
            /\ emitted' =
                 (IF collisionData.collidedWithId \in Joined
                  THEN {Msg("playerCollidedWithYou",
                            [id |-> s, position |-> players'[s].position],
                            collisionData.collidedWithId)}
                  ELSE {})
                 \cup Broadcast(s, "playersCollided",
                                [player1 |-> s,
                                 player2 |-> collisionData.collidedWithId,
                                 position |-> players'[s].position])
       ELSE /\ emitted' = {}
            /\ UNCHANGED players
    /\ handled' = [event |-> "carCollision", from |-> s, data |-> collisionData]
    /\ UNCHANGED <<collectiblesState, sockets>>

\* socket.on('carCollision'); collisionData.position is always sent by
\* emitCarCollision, so the `if (collisionData.position)` branch is taken
OnCarCollision(s, collisionData) ==
    /\ IF s \in Joined
       THEN /\ players' = [players EXCEPT ![s].position = collisionData.position]
            /\ emitted' =
                 (IF collisionData.collidedWithId \in Joined
                  THEN {Msg("playerCollidedWithYou",
                            [id |-> s, position |-> players'[s].position],
                            collisionData.collidedWithId)}
                  ELSE {})
                 \cup Broadcast(s, "playersCollided",
                                [player1 |-> s,
                                 player2 |-> collisionData.collidedWithId,
                                 position |-> players'[s].position])
       ELSE /\ emitted' = {}
            /\ UNCHANGED players
    /\ handled' = [event |-> "carCollision", from |-> s, data |-> collisionData]
    /\ UNCHANGED <<collectiblesState, sockets>>

\* (mutant) the leave is announced but the registry entry stays
OnDisconnectKeepsEntry(s) ==
    /\ sockets' = [sockets EXCEPT ![s] = "closed"]
    /\ emitted' = IF s \in Joined
                  THEN {Msg("playerLeft", s, o) : o \in AllTargets \ {s}}
                  ELSE {}
    /\ handled' = [event |-> "disconnect", from |-> s]
    /\ UNCHANGED <<players, collectiblesState>>

\* socket.on('disconnect')
OnDisconnect(s) ==
    /\ sockets' = [sockets EXCEPT ![s] = "closed"]
    /\ IF s \in Joined
       THEN /\ players' = [o \in Joined \ {s} |-> players[o]]
            \* io.emit: the closed socket itself is no longer a target
            /\ emitted' = {Msg("playerLeft", s, o) : o \in AllTargets \ {s}}
       ELSE /\ emitted' = {}
            /\ UNCHANGED players
    /\ handled' = [event |-> "disconnect", from |-> s]
    /\ UNCHANGED collectiblesState

\* (mutant) the ledger write is not guarded: the last arrival wins
OnCollectibleCollectedUnguarded(s, data) ==
    /\ collectiblesState' =
         (PropertyKey(data.itemId) :> [collected |-> TRUE,
                                       collectedBy |-> s,
                                       collectedAt |-> now])
         @@ collectiblesState
    /\ emitted' = Broadcast(s, "playerCollectedItem",
                            [itemId |-> data.itemId, playerId |-> s])
    /\ handled' = [event |-> "collectibleCollected", from |-> s, data |-> data,
                   before |-> {collectiblesState[k] :
                                 k \in {PropertyKey(data.itemId)} \cap DOMAIN collectiblesState}]
    /\ UNCHANGED <<players, sockets>>

\* socket.on('collectibleCollected'): the ledger write is guarded, the
\* broadcast is not
OnCollectibleCollected(s, data) ==
    /\ collectiblesState' =
         IF PropertyKey(data.itemId) \notin DOMAIN collectiblesState
         THEN (PropertyKey(data.itemId) :> [collected |-> TRUE,
                                            collectedBy |-> s,
                                            collectedAt |-> now])
              @@ collectiblesState
         ELSE collectiblesState
    /\ emitted' = Broadcast(s, "playerCollectedItem",
                            [itemId |-> data.itemId, playerId |-> s])
    /\ handled' = [event |-> "collectibleCollected", from |-> s, data |-> data,
                   before |-> {collectiblesState[k] :
                                 k \in {PropertyKey(data.itemId)} \cap DOMAIN collectiblesState}]
    /\ UNCHANGED <<players, sockets>>

----------------------------------------------------------------------------
(* The client's handling of the join snapshot: src/js/modules/multiplayer.js *)

\* socket.on('currentPlayers'): the ids the joiner adds as other players
CurrentPlayersAdded(playerID, snapshot) == {id \in DOMAIN snapshot : id # playerID}

----------------------------------------------------------------------------
(* The clients' collectibles: src/js/modules/collectibles.js and the       *)
(* collectible events of src/js/modules/multiplayer.js                     *)

\* the clients that play
GameClients == {"s1", "s2"}

\* ids of the collectibles: spawnCollectibles passes the spawn index
SpawnedIds == {JsNumber("0"), JsNumber("1")}

\* this.spawnedCollectibles of a client: spawnCollectible pushes an item when
\* its model has loaded
Spawned(c) == DOMAIN collected[c]

\* how many messages a channel holds in the model
MaxQueue == 2

\* how many clock steps a game run takes
MaxGameTicks == 1

\* collectibleData.respawnTime || 10000
DefaultRespawnTime == 10000

\* one clock step of the game runs, in ms
GameTickMs == DefaultRespawnTime

\* the configuration entries of the spawned items (coins.json): a gold and a
\* bronze coin, both respawning after the default delay
CollectibleData(id) ==
    IF id = JsNumber("0")
    THEN [type |-> "gold",   points |-> 50, respawn |-> TRUE, respawnTime |-> 0]
    ELSE [type |-> "bronze", points |-> 10, respawn |-> TRUE, respawnTime |-> 0]

\* collectibleData.respawnTime || 10000
RespawnDelay(data) ==
    IF data.respawnTime # 0 THEN data.respawnTime ELSE DefaultRespawnTime

\* collectible.id || userData.id || 'collectible-' + random: both ids are the
\* spawn index, so a falsy index is replaced by a random string
CollectibleId(id) == IF Truthy(id) THEN id ELSE JsString("collectible-7")

\* Object.keys(state.collectiblesState) of the collected entries: strings
CollectedKeys(state) ==
    {JsString(k) : k \in {j \in DOMAIN state.collectiblesState :
                            state.collectiblesState[j].collected}}

\* spawnedCollectibles.find(c => c.id === collectibleId || userData.id === ...)
FindSpawned(c, collectibleId) == {i \in Spawned(c) : i = collectibleId}

\* setTimeout(() => respawnCollectible(collectible), respawnTime || 10000),
\* when the item is configured to respawn: the item's pending timers, each
\* by the time it is due, in the order they were set
ScheduleRespawn(timers, id) ==
    IF CollectibleData(id).respawn
    THEN Append(timers, now + RespawnDelay(CollectibleData(id)))
    ELSE timers

\* the models of the spawn points in loaded have loaded, the same at each
\* client
CollectiblesInit(loaded) ==
    /\ collected = [c \in GameClients |-> [i \in loaded |-> FALSE]]
    /\ respawnTimers = [c \in GameClients |-> [i \in loaded |-> <<>>]]
    /\ playerScore = [c \in GameClients |-> 0]
    /\ upstream = [c \in GameClients |-> <<>>]
    /\ inbox = [c \in GameClients |-> <<>>]
    /\ awardedAt = [i \in SpawnedIds |-> [c \in GameClients |-> -1]]

\* applyCollectibleEffects: playerScore += points
ApplyCollectibleEffects(c, data) ==
    playerScore' = [playerScore EXCEPT ![c] = @ + data.points]

\* collectItem: scores, emits collectibleCollected itself and again through
\* the document event (MultiplayerManager.onCollectibleCollected), schedules
\* the respawn
CollectItem(c, id) ==
    LET data == CollectibleData(id)
        message == [event |-> "collectibleCollected",
                    data |-> [itemId |-> CollectibleId(id)]]
    IN  /\ ~collected[c][id]
        /\ collected' = [collected EXCEPT ![c][id] = TRUE]
        /\ ApplyCollectibleEffects(c, data)
        /\ upstream' = [upstream EXCEPT ![c] = @ \o <<message, message>>]
        /\ respawnTimers' = [respawnTimers EXCEPT ![c][id] = ScheduleRespawn(@, id)]
        /\ awardedAt' = [awardedAt EXCEPT ![id][c] = now]
        /\ UNCHANGED inbox

\* markCollected for each id of a notification: no score, always a new timer
MarkCollected(c, ids) ==
    LET found == UNION {FindSpawned(c, i) : i \in ids}
    IN  /\ collected' = [collected EXCEPT
                           ![c] = [i \in Spawned(c) |-> (i \in found) \/ @[i]]]
        /\ respawnTimers' =
             [respawnTimers EXCEPT
                ![c] = [i \in Spawned(c) |->
                          IF i \in found THEN ScheduleRespawn(@[i], i) ELSE @[i]]]
        /\ UNCHANGED <<playerScore, awardedAt>>

\* socket.on('playerCollectedItem') -> handleOtherPlayerCollectedItem
OnPlayerCollectedItem(c, data) == MarkCollected(c, {data.itemId})

\* socket.on('gameState'): markCollected with each collected entry's key
OnGameState(c, state) == MarkCollected(c, CollectedKeys(state))

\* respawnCollectible, run by a timer
RespawnCollectible(c, collectible) ==
    collected' = [collected EXCEPT ![c][collectible] = FALSE]

\* onCarLoaded -> joinGame: socket.emit('playerJoin')
JoinGame(c, carData) ==
    /\ upstream' = [upstream EXCEPT
                      ![c] = Append(@, [event |-> "playerJoin", data |-> carData])]
    /\ UNCHANGED <<collected, respawnTimers, playerScore, inbox, awardedAt>>

----------------------------------------------------------------------------
(* One client's game engine: off-track recovery, bombs and the timers that *)
(* re-enable off-track detection: src/js/game.js                           *)

\* setTimeout(() => { this.canResetCar = true }, 3000) in the constructor
StartupDelay == 3000

\* if (offTrackDuration > 1000)
OffTrackGrace == 1000

\* setTimeout(..., 5000) in resetCarToStart
ResetCooldown == 5000

\* this.collisionRecoveryTime = 1000
collisionRecoveryTime == 1000

\* this.bombsRemaining = 3
StartBombs == 3

\* time between two frames of the model
FrameMs == OffTrackGrace \div 2

\* how many frames a run of the engine takes
MaxFrames == 17

\* "start": inside the start area; "track": on the track outside the start
\* area; "off": off the track outside the start area
Regions == {"start", "track", "off"}

EngineInit ==
    /\ canResetCar = FALSE
    /\ offTrackStartTime = -1
    /\ controlsDisabled = FALSE
    /\ controlsDisabledTimeout = -1
    /\ cooldownTimers = {StartupDelay}
    /\ carRegion = "start"
    /\ bombsRemaining = StartBombs
    /\ bombs = 0
    /\ offTrackResets = {}
    /\ offTrackRun = [since |-> -1, last |-> "start", cleared |-> FALSE]

\* the engine's fields as a record, so that the steps of one frame compose
Engine ==
    [canResetCar |-> canResetCar, offTrackStartTime |-> offTrackStartTime,
     controlsDisabled |-> controlsDisabled,
     controlsDisabledTimeout |-> controlsDisabledTimeout,
     cooldownTimers |-> cooldownTimers, carRegion |-> carRegion,
     bombs |-> bombs, offTrackResets |-> offTrackResets]

\* resetCarToStart: start pose, detection off, a new timer that turns it on
\* again; timers set earlier stay pending
resetCarToStart(e) ==
    [e EXCEPT !.carRegion = "start",
              !.canResetCar = FALSE,
              !.offTrackStartTime = -1,
              !.cooldownTimers = @ \cup {now + ResetCooldown}]

\* disableControls: the previous re-enable timer is cleared
disableControls(e) ==
    [e EXCEPT !.controlsDisabled = TRUE,
              !.controlsDisabledTimeout = now + collisionRecoveryTime]

\* update: the controls move the car unless they are disabled
ProcessControls(e, region) ==
    IF e.controlsDisabled THEN e ELSE [e EXCEPT !.carRegion = region]

\* (mutant) a frame that finds the car on the track leaves the timestamp
CheckOffTrackKeepsTimestamp(e) ==
    IF ~e.canResetCar THEN e
    ELSE IF e.carRegion = "off"
         THEN IF e.offTrackStartTime = -1
              THEN [e EXCEPT !.offTrackStartTime = now]
              ELSE IF now - e.offTrackStartTime > OffTrackGrace
                   THEN [resetCarToStart(e) EXCEPT
                           !.offTrackResets = @ \cup {now}]
                   ELSE e
         ELSE e

\* update: the off-track block
CheckOffTrack(e) ==
    IF ~e.canResetCar THEN e
    ELSE IF e.carRegion = "off"
         THEN IF e.offTrackStartTime = -1
              THEN [e EXCEPT !.offTrackStartTime = now]
              ELSE IF now - e.offTrackStartTime > OffTrackGrace
                   THEN [resetCarToStart(e) EXCEPT
                           !.offTrackResets = @ \cup {now}]
                   ELSE e
         ELSE [e EXCEPT !.offTrackStartTime = -1]

\* checkBombCollisions -> handleBombCollision, when the car touches a bomb
CheckBombCollisions(e, touches) ==
    IF e.controlsDisabled \/ e.bombs = 0 \/ ~touches THEN e
    ELSE [resetCarToStart(disableControls(e)) EXCEPT !.bombs = @ - 1]

\* what a frame found once the controls had moved the car: since when every
\* frame has classified the car off-track, this frame's classification, and
\* whether some frame so far found a timestamp to clear
FrameClassified(e) ==
    [since |-> IF e.carRegion # "off" THEN -1
               ELSE IF offTrackRun.since = -1 THEN now ELSE offTrackRun.since,
     last |-> e.carRegion,
     cleared |-> \/ offTrackRun.cleared
                 \/ (e.canResetCar /\ e.carRegion # "off"
                       /\ e.offTrackStartTime # -1)]

\* one frame of update: controls, off-track block, collision checks
UpdateFrame(region, touches) ==
    LET e == CheckBombCollisions(CheckOffTrack(ProcessControls(Engine, region)),
                                 touches)
    IN  /\ canResetCar' = e.canResetCar
        /\ offTrackStartTime' = e.offTrackStartTime
        /\ controlsDisabled' = e.controlsDisabled
        /\ controlsDisabledTimeout' = e.controlsDisabledTimeout
        /\ cooldownTimers' = e.cooldownTimers
        /\ carRegion' = e.carRegion
        /\ bombs' = e.bombs
        /\ offTrackResets' = e.offTrackResets
        /\ offTrackRun' = FrameClassified(ProcessControls(Engine, region))
        /\ UNCHANGED bombsRemaining

\* throwBomb without the check of bombsRemaining
throwBombUnchecked ==
    /\ ~controlsDisabled
    /\ bombsRemaining' = bombsRemaining - 1
    /\ bombs' = bombs + 1
    /\ UNCHANGED <<canResetCar, offTrackStartTime, controlsDisabled,
                   controlsDisabledTimeout, cooldownTimers, carRegion,
                   offTrackResets, offTrackRun>>

\* onMouseClick -> throwBomb
throwBomb ==
    /\ ~controlsDisabled
    /\ bombsRemaining > 0
    /\ bombsRemaining' = bombsRemaining - 1
    /\ bombs' = bombs + 1
    /\ UNCHANGED <<canResetCar, offTrackStartTime, controlsDisabled,
                   controlsDisabledTimeout, cooldownTimers, carRegion,
                   offTrackResets, offTrackRun>>

\* a timer set by the constructor or by resetCarToStart fires
CooldownTimerFires(due) ==
    /\ due \in cooldownTimers
    /\ due <= now
    /\ canResetCar' = TRUE
    /\ cooldownTimers' = cooldownTimers \ {due}
    /\ UNCHANGED <<offTrackStartTime, controlsDisabled, controlsDisabledTimeout,
                   carRegion, bombsRemaining, bombs, offTrackResets,
                   offTrackRun>>

\* the timer set by disableControls fires
ControlsTimerFires ==
    /\ controlsDisabledTimeout # -1
    /\ controlsDisabledTimeout <= now
    /\ controlsDisabled' = FALSE
    /\ controlsDisabledTimeout' = -1
    /\ UNCHANGED <<canResetCar, offTrackStartTime, cooldownTimers, carRegion,
                   bombsRemaining, bombs, offTrackResets, offTrackRun>>

----------------------------------------------------------------------------
(* One client's remote actors: src/js/modules/multiplayer.js               *)

\* the other participants this client shows
RemoteIds == {"s2", "s3"}

\* the largest coordinate of the model; coordinates count the representable
\* numbers from an even one on (all in one binade)
MaxCoord == 12

Coords == 0 .. MaxCoord

\* const lerpFactor = 0.1, as 1 / LerpDivisor
LerpDivisor == 10

RemoteInit ==
    /\ otherPlayers = <<>>
    /\ previous = <<>>
    /\ otherPlayersData = <<>>
    /\ loading = {}

\* the client whose remote actors these are
LocalId == "s1"

\* this.connected
Connected == sockets[LocalId] = "connected"

\* n / d rounded to the nearest integer, a tie to the even one: the rounding
\* of a floating-point addition
RoundHalfEven(n, d) ==
    LET q == n \div d
        r == n % d
    IN  IF 2 * r < d THEN q
        ELSE IF 2 * r > d THEN q + 1
        ELSE IF q % 2 = 0 THEN q ELSE q + 1

\* (mutant) a blend factor above 1: x + (t - x) * 1.1
LerpPastTarget(x, t) == RoundHalfEven((LerpDivisor + 1) * t - x, LerpDivisor)

\* (mutant) a blend factor of 1: the actor jumps to the target
LerpSnapsToTarget(x, t) == t

\* Vector3.lerp, one component: x += (t - x) * 0.1. The difference and its
\* tenth are exact far below the spacing of the coordinates, the sum is
\* rounded to a coordinate.
Lerp(x, t) == RoundHalfEven((LerpDivisor - 1) * x + t, LerpDivisor)

\* loadOtherPlayerCar's load callback: otherPlayers[playerId] = car, a new
\* object at the reported position without a target
OtherPlayerLoaded(id, position) ==
    /\ otherPlayers' = (id :> [position |-> position, targetPosition |-> -1])
                        @@ otherPlayers
    /\ previous' = <<>>
    /\ loading' = loading \ {[id |-> id, position |-> position]}
    /\ UNCHANGED otherPlayersData

\* addOtherPlayer for each of infos: the data is stored and the model starts
\* to load; otherPlayers gets the car when the loader calls back
addOtherPlayer(infos) ==
    /\ otherPlayersData' =
         [id \in {i.id : i \in infos} \cup DOMAIN otherPlayersData |->
            IF \E i \in infos : i.id = id
            THEN CHOOSE i \in infos : i.id = id
            ELSE otherPlayersData[id]]
    /\ loading' = loading \cup {[id |-> i.id, position |-> i.position] : i \in infos}
    /\ UNCHANGED <<otherPlayers, previous>>

\* socket.on('currentPlayers'): every player of the snapshot but oneself
OnCurrentPlayers(snapshot) ==
    addOtherPlayer({snapshot[id] : id \in DOMAIN snapshot \ {LocalId}})

\* socket.on('newPlayer')
OnNewPlayer(playerInfo) == addOtherPlayer({playerInfo})

\* socket.on('playerMoved'): the target of a known player
OnPlayerMoved(moveData) ==
    /\ otherPlayers' =
         IF moveData.id \in DOMAIN otherPlayers
         THEN [otherPlayers EXCEPT ![moveData.id].targetPosition = moveData.position]
         ELSE otherPlayers
    /\ previous' = <<>>
    /\ UNCHANGED <<otherPlayersData, loading>>

\* socket.on('playerLeft'): everything is inside if (this.otherPlayers[id])
OnPlayerLeft(id) ==
    /\ otherPlayers' = [o \in DOMAIN otherPlayers \ {id} |-> otherPlayers[o]]
    /\ previous' = <<>>
    /\ otherPlayersData' =
         IF id \in DOMAIN otherPlayers
         THEN [o \in DOMAIN otherPlayersData \ {id} |-> otherPlayersData[o]]
         ELSE otherPlayersData
    /\ UNCHANGED loading

\* update: every player with a target takes one interpolation step
UpdateOtherPlayers ==
    /\ Connected
    /\ otherPlayers' =
         [id \in DOMAIN otherPlayers |->
            IF otherPlayers[id].targetPosition # -1
            THEN [otherPlayers[id] EXCEPT
                    !.position = Lerp(@, otherPlayers[id].targetPosition)]
            ELSE otherPlayers[id]]
    /\ previous' =
         [id \in {o \in DOMAIN otherPlayers : otherPlayers[o].targetPosition # -1}
            |-> otherPlayers[id].position]
    /\ UNCHANGED <<otherPlayersData, loading>>

----------------------------------------------------------------------------
(* One client's car against the track: src/js/game.js (isCarOnTrack).      *)
(* Lengths are in tenths of a world unit, so that the sampled points and   *)
(* the margins are integers; distances are compared by their squares.      *)

\* world units to model units
Scale == 10

\* const trackPath = [...]: [x, z] of the control points
trackPath ==
    << <<-60, -60>>, <<60, -60>>, <<80, -40>>, <<90, -10>>, <<80, 20>>,
       <<60, 40>>, <<20, 60>>, <<-20, 70>>, <<-50, 60>>, <<-80, 40>>,
       <<-90, 10>>, <<-80, -20>>, <<-70, -40>>, <<-60, -60>> >>

\* const numSamples = 100
numSamples == 100

\* (minDistanceIndex < 5) || (minDistanceIndex > numSamples - 5)
SeamSamples == 5

\* trackWidth / 2 + 3.0: the extra margin at the start/finish samples
SeamMargin == 3

\* curve.getPoint(i / numSamples) of the closed curve through trackPath: the
\* parameter selects one of the Len(trackPath) segments and a weight in it;
\* the point is taken on the chord of the segment (the curve itself bends
\* between the control points, which it passes through)
CurvePoint(i) ==
    LET u == Len(trackPath) * i
        k == u \div numSamples
        w == u % numSamples
        p == trackPath[k + 1]
        q == trackPath[((k + 1) % Len(trackPath)) + 1]
    IN  [x |-> Scale * p[1] + (Scale * w * (q[1] - p[1])) \div numSamples,
         z |-> Scale * p[2] + (Scale * w * (q[2] - p[2])) \div numSamples]

\* carPosition.distanceTo(pointOnCurve), squared (both at height 0.1)
DistanceSquared(a, b) == (a.x - b.x) * (a.x - b.x) + (a.z - b.z) * (a.z - b.z)

\* the start area in which the car is never reset
isNearStartLine(position) ==
    /\ position.z < -40 * Scale
    /\ position.z > -80 * Scale
    /\ position.x > -70 * Scale
    /\ position.x < 70 * Scale

\* the loop over the samples: the smallest distance and the first index
\* that has it
minDistanceSquared(position) ==
    LET all == {DistanceSquared(position, CurvePoint(i)) : i \in 0 .. numSamples - 1}
    IN  CHOOSE d \in all : \A e \in all : d <= e

minDistanceIndex(position) ==
    LET d == minDistanceSquared(position)
        at == {i \in 0 .. numSamples - 1 : DistanceSquared(position, CurvePoint(i)) = d}
    IN  CHOOSE i \in at : \A j \in at : i <= j

\* (mutant) the wider margin of the seam is used all along the track
isCarOnTrackWideEverywhere(position, trackWidth, trackMargin) ==
    IF isNearStartLine(position) THEN TRUE
    ELSE 4 * minDistanceSquared(position)
           <= (trackWidth + 2 * SeamMargin * Scale)
                * (trackWidth + 2 * SeamMargin * Scale)

\* (mutant) the comparison with the margin is reversed
isCarOnTrackReversed(position, trackWidth, trackMargin) ==
    IF isNearStartLine(position) THEN TRUE
    ELSE LET d == minDistanceSquared(position)
             i == minDistanceIndex(position)
         IN  IF i < SeamSamples \/ i > numSamples - SeamSamples
             THEN 4 * d >= (trackWidth + 2 * SeamMargin * Scale)
                             * (trackWidth + 2 * SeamMargin * Scale)
             ELSE 4 * d >= (trackWidth + 2 * trackMargin)
                             * (trackWidth + 2 * trackMargin)

\* isCarOnTrack: minDistance <= trackWidth / 2 + margin, both sides doubled
\* and squared
isCarOnTrack(position, trackWidth, trackMargin) ==
    IF isNearStartLine(position) THEN TRUE
    ELSE LET d == minDistanceSquared(position)
             i == minDistanceIndex(position)
         IN  IF i < SeamSamples \/ i > numSamples - SeamSamples
             THEN 4 * d <= (trackWidth + 2 * SeamMargin * Scale)
                             * (trackWidth + 2 * SeamMargin * Scale)
             ELSE 4 * d <= (trackWidth + 2 * trackMargin)
                             * (trackWidth + 2 * trackMargin)

----------------------------------------------------------------------------
(* One client's ride height: src/js/game.js (adjustCarHeight). Heights are *)
(* in 1/3000 of a world unit, so that the blend of the two heights is an   *)
(* integer for every distance in tenths of a unit.                         *)

\* const transitionDistance = 30
transitionDistance == 30

\* model units of height per world unit
HeightScale == 3000

\* const groundHeight = 1.0
groundHeight == HeightScale

\* car.position.y = car.position.y * 0.9 + targetHeight * 0.1, as tenths
SmoothDivisor == 10

\* (mutant) the height switches at the transition distance instead of
\* blending towards it
targetHeightSwitches(minDistance, closestY) ==
    IF minDistance < transitionDistance * Scale THEN closestY ELSE groundHeight

\* trackHeight * (1 - blendFactor) + groundHeight * blendFactor with
\* blendFactor = max(0, minDistance / transitionDistance), or groundHeight
targetHeight(minDistance, closestY) ==
    IF minDistance < transitionDistance * Scale
    THEN (closestY * (transitionDistance * Scale - minDistance)
            + groundHeight * minDistance) \div (transitionDistance * Scale)
    ELSE groundHeight

\* adjustCarHeight, given what the search over the samples found
adjustCarHeight(minDistance, closestY) ==
    LET target == targetHeight(minDistance, closestY)
    IN  /\ carY' = RoundHalfEven((SmoothDivisor - 1) * carY + target, SmoothDivisor)
        /\ height' = [called |-> TRUE, minDistance |-> minDistance,
                      closestY |-> closestY, targetHeight |-> target,
                      before |-> carY]

----------------------------------------------------------------------------
(* One client's overlap tests: src/js/game.js (trees, other cars, bombs), *)
(* src/js/modules/traps.js and src/js/modules/collectibles.js. Distances   *)
(* and radii are in tenths of a world unit.                                *)

\* this.carCollisionRadius = 1.2
carCollisionRadius == 12

\* const maxHeightDiff = 2.0
maxHeightDiff == 20

\* the categories of things the car is tested against
Categories == {"tree", "player", "bomb", "trap", "collectible"}

\* the condition under which each check handles a collision
Overlaps(category, distance, radius, heightDiff) ==
    CASE category = "tree" -> distance < carCollisionRadius + radius
      [] category = "player" -> distance < carCollisionRadius * 2
      [] category = "bomb" -> distance < carCollisionRadius + radius
      [] category = "trap" -> distance < radius
      [] category = "collectible" ->
            distance < radius * 2 /\ heightDiff < maxHeightDiff

\* the car at the start pose (resetCarToStart's midpoint); nothing classified
SceneInit ==
    /\ carPosition = [x |-> 0, z |-> -60 * Scale]
    /\ onTrack = [called |-> FALSE]
    /\ carY = HeightScale \div 2
    /\ height = [called |-> FALSE]
    /\ overlap = [called |-> FALSE]
    /\ sweep = [trees |-> 0, collectibles |-> 0, traps |-> 0, order |-> <<>>]

\* one client's engine, remote actors and scene after construction
\* a remote actor as loaded, facing along z, without a target heading
FurtherInit ==
    /\ remoteHeading = [y |-> 0, target |-> {}, rotDiff |-> {}]
    /\ playerShield = 0
    /\ shieldBar = {}
    /\ lastUpdateTime = 0
    /\ movementSent = [last |-> -1, gap |-> {}, suppressed |-> FALSE]
    /\ inputReleased = FALSE
    /\ rendered = [cars |-> [id \in Sockets |-> 0],
                   labels |-> [id \in Sockets |-> 0]]

LocalClientInit == EngineInit /\ RemoteInit /\ SceneInit /\ FurtherInit

ClientInit == CollectiblesInit({}) /\ LocalClientInit

----------------------------------------------------------------------------
(* The environment of the relay: any connected socket may send any event.  *)

NothingSent == [headlightsOn |-> {}, vehicleId |-> {}]

RelayInit ==
    /\ players = <<>>
    /\ collectiblesState = <<>>
    /\ sockets = [s \in Sockets |-> "idle"]
    /\ emitted = {}
    /\ handled = [event |-> "listen"]
    /\ lastSent = [s \in Sockets |-> NothingSent]
    /\ now = 0
    /\ ClientInit

RelayConnect == \E s \in Sockets : Connect(s) /\ UNCHANGED <<lastSent, now, clientVars>>

RelayJoin ==
    \E s \in Sockets, v \in VehicleIds, t \in Transforms :
        /\ sockets[s] = "connected"
        /\ OnPlayerJoin(s, [vehicleId |-> v, position |-> t.position,
                            rotation |-> t.rotation])
        /\ UNCHANGED <<lastSent, now, clientVars>>

RelayHeadlights ==
    \E s \in Sockets, h \in BOOLEAN :
        /\ sockets[s] = "connected"
        /\ OnHeadlightsToggle(s, [headlightsOn |-> h])
        /\ UNCHANGED <<lastSent, now, clientVars>>

RelayMovement ==
    \E s \in Sockets, t \in Transforms :
        /\ sockets[s] = "connected"
        /\ OnPlayerMovement(s, t)
        /\ UNCHANGED <<lastSent, now, clientVars>>

RelayVehicle ==
    \E s \in Sockets, v \in VehicleIds :
        /\ sockets[s] = "connected"
        /\ OnVehicleChange(s, [vehicleId |-> v])
        /\ UNCHANGED <<lastSent, now, clientVars>>

RelayHorn ==
    \E s \in Sockets :
        /\ sockets[s] = "connected"
        /\ OnHornSound(s)
        /\ UNCHANGED <<lastSent, now, clientVars>>

RelayCollision ==
    \E s \in Sockets, o \in Sockets, t \in Transforms :
        /\ sockets[s] = "connected"
        /\ o # s
        /\ OnCarCollision(s, [collidedWithId |-> o, position |-> t.position])
        /\ UNCHANGED <<lastSent, now, clientVars>>

RelayDisconnect ==
    \E s \in Sockets :
        /\ sockets[s] = "connected"
        /\ OnDisconnect(s)
        /\ UNCHANGED <<lastSent, now, clientVars>>

\* a pickup of the item with spawn index 1
RelayCollected ==
    \E s \in Sockets :
        /\ sockets[s] = "connected"
        /\ OnCollectibleCollected(s, [itemId |-> JsNumber("1")])
        /\ UNCHANGED <<lastSent, now, clientVars>>

\* a pickup of any item
LedgerCollected ==
    \E s \in Sockets, i \in ItemIds :
        /\ sockets[s] = "connected"
        /\ OnCollectibleCollected(s, [itemId |-> i])
        /\ UNCHANGED <<lastSent, now, clientVars>>

RelayTick ==
    /\ now + RelayTickMs <= MaxRelayTicks * RelayTickMs
    /\ now' = now + RelayTickMs
    /\ UNCHANGED <<relayVars, lastSent, clientVars>>

\* SpecRelay: the registry handlers
RelayNext ==
    \/ RelayConnect
    \/ RelayJoin
    \/ RelayHeadlights
    \/ RelayMovement
    \/ RelayVehicle
    \/ RelayHorn
    \/ RelayDisconnect
    \/ RelayCollected

SpecRelay == RelayInit /\ [][RelayNext]_vars

\* SpecLedger: the collectible ledger, with the clock running
LedgerNext ==
    \/ RelayConnect
    \/ LedgerCollected
    \/ RelayDisconnect
    \/ RelayTick

SpecLedger == RelayInit /\ [][LedgerNext]_vars

(* SpecFlags: joins, vehicle changes and headlight toggles; lastSent       *)
(* records the flag values each socket sent while it had a registry entry  *)
(* (a join sends the vehicle kind, never the headlights flag).             *)

FlagsJoin ==
    \E s \in Sockets, v \in VehicleIds, t \in Transforms :
        /\ sockets[s] = "connected"
        /\ OnPlayerJoin(s, [vehicleId |-> v, position |-> t.position,
                            rotation |-> t.rotation])
        /\ lastSent' = [lastSent EXCEPT ![s].vehicleId = {v}]
        /\ UNCHANGED <<now, clientVars>>

FlagsHeadlights ==
    \E s \in Sockets, h \in BOOLEAN :
        /\ sockets[s] = "connected"
        /\ OnHeadlightsToggle(s, [headlightsOn |-> h])
        /\ lastSent' = IF s \in Joined
                       THEN [lastSent EXCEPT ![s].headlightsOn = {h}]
                       ELSE lastSent
        /\ UNCHANGED <<now, clientVars>>

FlagsVehicle ==
    \E s \in Sockets, v \in VehicleIds :
        /\ sockets[s] = "connected"
        /\ OnVehicleChange(s, [vehicleId |-> v])
        /\ lastSent' = IF s \in Joined
                       THEN [lastSent EXCEPT ![s].vehicleId = {v}]
                       ELSE lastSent
        /\ UNCHANGED <<now, clientVars>>

FlagsDisconnect ==
    \E s \in Sockets :
        /\ sockets[s] = "connected"
        /\ OnDisconnect(s)
        /\ lastSent' = [lastSent EXCEPT ![s] = NothingSent]
        /\ UNCHANGED <<now, clientVars>>

FlagsNext ==
    \/ RelayConnect
    \/ FlagsJoin
    \/ FlagsHeadlights
    \/ FlagsVehicle
    \/ FlagsDisconnect

SpecFlags == RelayInit /\ [][FlagsNext]_vars

----------------------------------------------------------------------------
(* Claims about the relay *)

\* C1: a collectibleCollected for an item whose ledger entry is already
\* collected is a no-op at the relay: the entry is unchanged and nothing is
\* forwarded to any participant.
DuplicateCollectIsNoOp ==
    (handled.event = "collectibleCollected" /\ handled.before # {}) =>
        /\ collectiblesState[PropertyKey(handled.data.itemId)] \in handled.before
        /\ emitted = {}

\* C4: once a ledger entry is collected, its collector id and timestamp are
\* never changed by a later collectibleCollected from any sender; the first
\* arrival at the relay is the recorded collector, stamped with its arrival time.
LedgerFirstArrivalWins ==
    /\ [](handled.event = "collectibleCollected" =>
            /\ PropertyKey(handled.data.itemId) \in DOMAIN collectiblesState
            /\ handled.before # {} =>
                 collectiblesState[PropertyKey(handled.data.itemId)] \in handled.before
            /\ handled.before = {} =>
                 collectiblesState[PropertyKey(handled.data.itemId)].collectedBy
                    = handled.from)
    /\ [][/\ \A k \in DOMAIN collectiblesState :
               /\ k \in DOMAIN collectiblesState'
               /\ collectiblesState'[k] = collectiblesState[k]
          /\ \A k \in DOMAIN collectiblesState' \ DOMAIN collectiblesState :
               /\ collectiblesState'[k].collected
               /\ collectiblesState'[k].collectedAt = now
               /\ collectiblesState'[k].collectedBy = handled'.from]_vars

\* C4 witness: a second sender's collectibleCollected arrives later than the
\* recorded collection of the same item
LedgerRaceWitness ==
    /\ handled.event = "collectibleCollected"
    /\ \E e \in handled.before :
         /\ e.collectedBy # handled.from
         /\ e.collectedAt < now
         /\ collectiblesState[PropertyKey(handled.data.itemId)] = e

\* C5: a movement event from a joined participant overwrites its stored
\* position and heading with exactly the received payload, and the same values
\* are forwarded to every other joined participant and never to the sender.
MovementStoredAndForwarded ==
    (handled.event = "playerMovement" /\ handled.from \in Joined) =>
        /\ players[handled.from].position = handled.data.position
        /\ players[handled.from].rotation = handled.data.rotation
        /\ \A o \in Joined \ {handled.from} :
             Msg("playerMoved",
                 [id |-> handled.from,
                  position |-> handled.data.position,
                  rotation |-> handled.data.rotation], o) \in emitted
        /\ \A m \in emitted : m.to # handled.from /\ m.event = "playerMoved"

\* C5 witness: a joined participant moved while two others were joined
MovementWitness ==
    /\ handled.event = "playerMovement"
    /\ handled.from \in Joined
    /\ Cardinality(Joined) = 3
    /\ Cardinality(emitted) = 2

\* C6 (as claimed): the snapshot sent to the joiner holds every registry
\* entry except the joiner's own, and participantJoined goes to all others.
JoinSnapshotExcludesJoiner ==
    handled.event = "playerJoin" =>
        /\ \A m \in emitted :
             m.event = "currentPlayers" =>
                /\ m.to = handled.from
                /\ DOMAIN m.payload = Joined \ {handled.from}
        /\ \A o \in BroadcastTargets(handled.from) :
             Msg("newPlayer", players[handled.from], o) \in emitted
        /\ \A m \in emitted : m.event = "newPlayer" => m.to # handled.from

\* C6 (amended): the snapshot sent to the joiner is the whole registry, the
\* joiner's own new entry included; the joining client skips its own id, so the
\* participants it adds are exactly all the others; participantJoined goes to
\* every other connected socket and not to the joiner.
JoinSnapshotIsRegistry ==
    handled.event = "playerJoin" =>
        /\ handled.from \in Joined
        /\ Msg("currentPlayers", players, handled.from) \in emitted
        /\ \A m \in emitted :
             m.event = "currentPlayers" =>
                /\ m.to = handled.from
                /\ CurrentPlayersAdded(handled.from, m.payload) = Joined \ {handled.from}
        /\ \A o \in BroadcastTargets(handled.from) :
             Msg("newPlayer", players[handled.from], o) \in emitted
        /\ \A m \in emitted : m.event = "newPlayer" => m.to # handled.from

\* C6 witness: a join while two other participants are in the registry
JoinWitness ==
    /\ handled.event = "playerJoin"
    /\ Cardinality(Joined) = 3
    /\ Cardinality({m \in emitted : m.event = "newPlayer"}) = 2

\* C7: when a joined participant's transport disconnects, the relay removes
\* its registry entry and sends participantLeft to every remaining connection;
\* its id is in no later join snapshot, and the disconnect leaves the ledger
\* unchanged.
DisconnectRemovesParticipant ==
    /\ [](\A s \in Sockets :
            sockets[s] = "closed" =>
               /\ s \notin Joined
               /\ \A m \in emitted :
                    m.event = "currentPlayers" => s \notin DOMAIN m.payload)
    /\ [][\A s \in Joined :
            sockets'[s] = "closed" =>
               /\ s \notin DOMAIN players'
               /\ \A o \in Sockets :
                    sockets'[o] = "connected" => Msg("playerLeft", s, o) \in emitted'
               /\ collectiblesState' = collectiblesState]_vars

\* C7 witness: a joined participant left while another stayed and the ledger
\* held a collected item
DisconnectWitness ==
    /\ handled.event = "disconnect"
    /\ Msg("playerLeft", handled.from, "s2") \in emitted
    /\ Joined # {}
    /\ collectiblesState # <<>>

\* C8: for vehicleChanged and headlightsToggled from a joined participant the
\* relay stores the received value and forwards it to all others and not to
\* the sender, so the stored headlights flag and vehicle kind always equal the
\* last value the participant sent (the join value if it sent none), and a
\* join snapshot reports those values.
StoredFlagsAreLastSent ==
    /\ \A s \in Joined :
         /\ players[s].vehicleId \in lastSent[s].vehicleId
         /\ players[s].headlightsOn \in
              (IF lastSent[s].headlightsOn = {} THEN {TRUE} ELSE lastSent[s].headlightsOn)
    /\ \A m \in emitted :
         m.event = "currentPlayers" =>
            \A s \in DOMAIN m.payload :
               m.payload[s].headlightsOn \in
                 (IF lastSent[s].headlightsOn = {} THEN {TRUE} ELSE lastSent[s].headlightsOn)
    /\ (handled.event = "headlightsToggle" /\ handled.from \in Joined) =>
          /\ \A o \in Joined \ {handled.from} :
               Msg("headlightsToggled",
                   [id |-> handled.from, headlightsOn |-> handled.data.headlightsOn],
                   o) \in emitted
          /\ \A m \in emitted : m.to # handled.from

----------------------------------------------------------------------------
(* SpecGame: two connected clients pick up collectibles; their messages    *)
(* travel to the relay and the relay's notifications travel back, each     *)
(* direction in order per connection; respawn timers fire when due.        *)

\* the relay's messages that the collectibles of a client react to
ItemEvents == {"playerCollectedItem", "gameState"}

\* what a relay handler's output puts on the channel to client o
Deliveries(out, o) ==
    LET ms == {m \in out : m.to = o /\ m.event \in ItemEvents}
    IN  IF ms = {} THEN <<>> ELSE <<CHOOSE m \in ms : TRUE>>

\* both clients have connected, none has joined yet
GameInit ==
    /\ players = <<>>
    /\ collectiblesState = <<>>
    /\ sockets = [s \in Sockets |-> IF s \in GameClients THEN "connected" ELSE "idle"]
    /\ emitted = {}
    /\ handled = [event |-> "connection", from |-> "s2"]
    /\ lastSent = [s \in Sockets |-> NothingSent]
    /\ now = 0
    /\ \E loaded \in SpawnedIds : CollectiblesInit({loaded})
    /\ LocalClientInit

\* the car touches a collectible (checkCollisions -> collectItem)
GamePickup ==
    \E c \in GameClients, id \in SpawnedIds :
        /\ id \in Spawned(c)
        /\ Len(upstream[c]) + 2 <= MaxQueue
        /\ CollectItem(c, id)
        /\ UNCHANGED <<relayVars, lastSent, now, notGameVars>>

\* the car finishes loading (carLoaded -> onCarLoaded -> joinGame); in a run
\* each client's car loads once
GameJoin ==
    \E c \in GameClients :
        /\ c \notin Joined
        /\ \A k \in DOMAIN upstream[c] : upstream[c][k].event # "playerJoin"
        /\ Len(upstream[c]) < MaxQueue
        /\ JoinGame(c, [vehicleId |-> "sports-car", position |-> 0, rotation |-> 0])
        /\ UNCHANGED <<relayVars, lastSent, now, notGameVars>>

\* the relay handles the next message of a connection
GameRelayHandles ==
    \E c \in GameClients :
        /\ upstream[c] # <<>>
        /\ \A o \in GameClients : Len(inbox[o]) < MaxQueue
        /\ LET m == Head(upstream[c])
           IN  IF m.event = "playerJoin"
               THEN OnPlayerJoin(c, m.data)
               ELSE OnCollectibleCollected(c, m.data)
        /\ upstream' = [upstream EXCEPT ![c] = Tail(@)]
        /\ inbox' = [o \in GameClients |-> inbox[o] \o Deliveries(emitted', o)]
        /\ UNCHANGED <<lastSent, now, collected, respawnTimers, playerScore, awardedAt>>
        /\ UNCHANGED <<notGameVars>>

\* a client handles the next notification of the relay
GameClientHandles ==
    \E c \in GameClients :
        /\ inbox[c] # <<>>
        /\ LET m == Head(inbox[c])
           IN  IF m.event = "gameState"
               THEN OnGameState(c, m.payload)
               ELSE OnPlayerCollectedItem(c, m.payload)
        /\ inbox' = [inbox EXCEPT ![c] = Tail(@)]
        /\ UNCHANGED <<relayVars, lastSent, now, upstream, notGameVars>>

\* a due respawn timer fires
GameRespawn ==
    \E c \in GameClients, i \in SpawnedIds :
        /\ i \in Spawned(c)
        /\ respawnTimers[c][i] # <<>>
        /\ Head(respawnTimers[c][i]) <= now
        /\ RespawnCollectible(c, i)
        /\ respawnTimers' = [respawnTimers EXCEPT ![c][i] = Tail(@)]
        /\ UNCHANGED <<relayVars, lastSent, now, playerScore, upstream, inbox, awardedAt>>
        /\ UNCHANGED <<notGameVars>>

\* time passes, up to the next due timer
GameTick ==
    /\ now + GameTickMs <= MaxGameTicks * GameTickMs
    /\ \A c \in GameClients : \A i \in Spawned(c) :
          respawnTimers[c][i] # <<>> => Head(respawnTimers[c][i]) > now
    /\ now' = now + GameTickMs
    /\ UNCHANGED <<relayVars, lastSent, clientVars>>

GameNext ==
    \/ GamePickup
    \/ GameJoin
    \/ GameRelayHandles
    \/ GameClientHandles
    \/ GameRespawn
    \/ GameTick

SpecGame == GameInit /\ [][GameNext]_vars

----------------------------------------------------------------------------
(* Claims about collectibles *)

\* C2: when the relay receives collectibleCollected for an item a second
\* time within one round (less than a respawn delay after the first), the
\* item's point value has been awarded exactly once over all participants.
PointsAwardedOncePerRound ==
    (/\ handled.event = "collectibleCollected"
     /\ handled.before # {}
     /\ \A e \in handled.before : now - e.collectedAt < DefaultRespawnTime)
    => \A i \in SpawnedIds :
          CollectibleId(i) = handled.data.itemId =>
              Cardinality({c \in GameClients :
                             /\ awardedAt[i][c] >= 0
                             /\ now - awardedAt[i][c] < RespawnDelay(CollectibleData(i))}) = 1

\* C3: at every client, a collected collectible has at most one pending
\* respawn timer.
OneRespawnTimerPerCollected ==
    \A c \in GameClients : \A i \in Spawned(c) :
        collected[c][i] =>
            Len(respawnTimers[c][i]) <= 1

----------------------------------------------------------------------------
(* SpecTrack: one client's engine; each frame the player steers the car    *)
(* into any region and may touch a bomb it has thrown; timers fire when    *)
(* they are due.                                                           *)

TrackInit == RelayInit

TrackFrame ==
    \E region \in Regions, touches \in BOOLEAN :
        /\ UpdateFrame(region, touches)
        /\ UNCHANGED <<relayVars, lastSent, now, notEngineVars>>

TrackThrow ==
    /\ throwBomb
    /\ UNCHANGED <<relayVars, lastSent, now, notEngineVars>>

TrackCooldown ==
    \E due \in cooldownTimers :
        /\ CooldownTimerFires(due)
        /\ UNCHANGED <<relayVars, lastSent, now, notEngineVars>>

TrackControls ==
    /\ ControlsTimerFires
    /\ UNCHANGED <<relayVars, lastSent, now, notEngineVars>>

\* time passes, up to the next due timer
TrackTick ==
    /\ now + FrameMs <= MaxFrames * FrameMs
    /\ \A due \in cooldownTimers : due > now
    /\ controlsDisabledTimeout # -1 => controlsDisabledTimeout > now
    /\ now' = now + FrameMs
    /\ UNCHANGED <<relayVars, lastSent, clientVars>>

TrackNext ==
    \/ TrackFrame
    \/ TrackThrow
    \/ TrackCooldown
    \/ TrackControls
    \/ TrackTick

SpecTrack == TrackInit /\ [][TrackNext]_vars

----------------------------------------------------------------------------
(* Claims about off-track recovery *)

\* C16: after every relocation to the start pose off-track detection stays
\* suspended for the full cooldown: while detection is enabled, no timer set
\* by a relocation (due one cooldown after it) is still ahead.
DetectionSuspendedFullCooldown ==
    canResetCar =>
        \A due \in cooldownTimers : due >= ResetCooldown => due <= now

OneRelocationPerCooldown ==
    \A t1 \in offTrackResets, t2 \in offTrackResets :
        t1 < t2 => t2 - t1 >= ResetCooldown

----------------------------------------------------------------------------
(* SpecLerp: one client's remote actors; cars load, movement events set    *)
(* targets, players leave, and the animation loop interpolates.            *)

LerpInit == RelayInit

LerpConnect ==
    /\ Connect(LocalId)
    /\ UNCHANGED <<lastSent, now, clientVars>>

LerpLoaded ==
    \E id \in RemoteIds, position \in Coords :
        /\ OtherPlayerLoaded(id, position)
        /\ UNCHANGED <<relayVars, lastSent, now, notRemoteVars>>

LerpMoved ==
    \E id \in RemoteIds, position \in Coords :
        /\ OnPlayerMoved([id |-> id, position |-> position])
        /\ UNCHANGED <<relayVars, lastSent, now, notRemoteVars>>

LerpLeft ==
    \E id \in RemoteIds :
        /\ OnPlayerLeft(id)
        /\ UNCHANGED <<relayVars, lastSent, now, notRemoteVars>>

LerpUpdate ==
    /\ UpdateOtherPlayers
    /\ UNCHANGED <<relayVars, lastSent, now, notRemoteVars>>

LerpNext ==
    \/ LerpConnect
    \/ LerpLoaded
    \/ LerpMoved
    \/ LerpLeft
    \/ LerpUpdate

SpecLerp == LerpInit /\ [][LerpNext]_vars

----------------------------------------------------------------------------
(* Claims about the interpolation of remote actors *)

Distance(x, t) == IF x >= t THEN x - t ELSE t - x

\* C10 (as stated): every interpolation tick of a remote actor that is not
\* at its target strictly decreases the distance to the target.
LerpStrictlyApproaches ==
    \A id \in DOMAIN previous :
        previous[id] # otherPlayers[id].targetPosition =>
            Distance(otherPlayers[id].position, otherPlayers[id].targetPosition)
                < Distance(previous[id], otherPlayers[id].targetPosition)

\* C10 (amended): an interpolation tick never increases the distance to the
\* target and never moves the actor past it; the distance strictly decreases
\* whenever the actor moves at all, which it does when a tenth of the
\* distance is more than half the spacing of the coordinates.
LerpApproachesNeverPasses ==
    \A id \in DOMAIN previous :
        LET x == previous[id]
            y == otherPlayers[id].position
            t == otherPlayers[id].targetPosition
        IN  /\ (x <= t => x <= y /\ y <= t)
            /\ (x >= t => t <= y /\ y <= x)
            /\ (y # x => Distance(y, t) < Distance(x, t))
            /\ (2 * Distance(x, t) > LerpDivisor => y # x)

\* a tick has moved an actor that is still short of its target
LerpWitness ==
    \E id \in DOMAIN previous :
        /\ previous[id] # otherPlayers[id].position
        /\ otherPlayers[id].position # otherPlayers[id].targetPosition

\* C11: after exactly one interpolation tick, the position of a remote actor
\* that was at p with target t is p + 0.1 * (t - p): the coordinate nearest to
\* that value, and that value itself whenever it is a coordinate.
LerpOneTickIsTenth ==
    \A id \in DOMAIN previous :
        LET p == previous[id]
            y == otherPlayers[id].position
            t == otherPlayers[id].targetPosition
            exact == (LerpDivisor - 1) * p + t    \* LerpDivisor * (p + 0.1 * (t - p))
        IN  /\ 2 * Distance(LerpDivisor * y, exact) <= LerpDivisor
            /\ (exact % LerpDivisor = 0 => LerpDivisor * y = exact)

\* the example of the claim, per component: from 0 with target 10 to 1
LerpOneTickWitness ==
    \E id \in DOMAIN previous :
        /\ previous[id] = 0
        /\ otherPlayers[id].targetPosition = 10
        /\ otherPlayers[id].position = 1

----------------------------------------------------------------------------
(* SpecOnTrack: the car is driven to a sampled point of the curve or to a  *)
(* point beside one, and the on-track test classifies where it is.         *)

\* how far beside a sampled point the car is put, along z
SideOffsets == {-8 * Scale, -6 * Scale, 0, 6 * Scale, 8 * Scale}

\* track widths and margins: the engine's (8 and 1.5) and narrow ones
TrackWidths == {1, 8 * Scale}

TrackMargins == {1, (3 * Scale) \div 2}

OnTrackInit == RelayInit

\* the controls move the car
OnTrackDrive ==
    \E i \in 0 .. numSamples - 1, side \in SideOffsets :
        /\ carPosition' = [x |-> CurvePoint(i).x, z |-> CurvePoint(i).z + side]
        /\ onTrack' = [called |-> FALSE]
        /\ UNCHANGED <<relayVars, lastSent, now, notSceneVars, heightVars, hitVars>>

\* update calls isCarOnTrack(car)
OnTrackCheck ==
    \E trackWidth \in TrackWidths, trackMargin \in TrackMargins :
        /\ onTrack' = [called |-> TRUE,
                       trackWidth |-> trackWidth,
                       trackMargin |-> trackMargin,
                       result |-> isCarOnTrack(carPosition, trackWidth, trackMargin)]
        /\ UNCHANGED <<relayVars, lastSent, now, notSceneVars, carPosition,
                       heightVars, hitVars>>

OnTrackNext ==
    \/ OnTrackDrive
    \/ OnTrackCheck

SpecOnTrack == OnTrackInit /\ [][OnTrackNext]_vars

----------------------------------------------------------------------------
(* Claims about the on-track test *)

\* C12: a position that coincides with a sampled curve point is classified
\* on-track, for every sample index and any positive width and margin.
SamplePointIsOnTrack ==
    (/\ onTrack.called
     /\ \E i \in 0 .. numSamples - 1 : carPosition = CurvePoint(i))
    => onTrack.result

\* a sampled point outside the start area has been classified, with the
\* narrow width and margin
SamplePointWitness ==
    /\ onTrack.called
    /\ onTrack.trackWidth = 1
    /\ onTrack.trackMargin = 1
    /\ ~isNearStartLine(carPosition)
    /\ \E i \in 0 .. numSamples - 1 : carPosition = CurvePoint(i)

----------------------------------------------------------------------------
(* SpecHeight: each frame the ride height is adjusted for the distance of  *)
(* the car from the nearest sample of the track.                           *)

\* the largest distance from the track, in world units
MaxTrackDistance == 32

\* the distances tried are this many world units apart
DistanceStep == 4

\* minimum distances the search finds: whole units and the two tenths next
\* to the transition distance
TrackDistances ==
    {d * Scale : d \in {n \in 0 .. MaxTrackDistance : n % DistanceStep = 0}}
        \cup {transitionDistance * Scale - 1, transitionDistance * Scale + 1}

\* trackPoint.y of the nearest sample: every control point is at height 0
ClosestYs == {0}

HeightInit == RelayInit

HeightAdjust ==
    \E minDistance \in TrackDistances, closestY \in ClosestYs :
        /\ adjustCarHeight(minDistance, closestY)
        /\ UNCHANGED <<relayVars, lastSent, now, notSceneVars, onTrackVars, hitVars>>

HeightNext == HeightAdjust

SpecHeight == HeightInit /\ [][HeightNext]_vars

----------------------------------------------------------------------------
(* Claims about the ride height *)

\* C13: the target elevation has no jump at the transition distance: its gap
\* to the ground height is at most the share of the track-to-ground gap that
\* the distance is short of the transition distance (nothing at or beyond
\* it); and a tick moves the elevation by a tenth of its gap to the target.
HeightTargetContinuous ==
    height.called =>
        /\ Distance(height.targetHeight, groundHeight) * transitionDistance * Scale
             <= Distance(height.closestY, groundHeight)
                  * Distance(height.minDistance, transitionDistance * Scale)
        /\ (height.minDistance >= transitionDistance * Scale
              => height.targetHeight = groundHeight)
        /\ 2 * Distance(SmoothDivisor * (carY - height.before),
                        height.targetHeight - height.before) <= SmoothDivisor

\* the height was adjusted a tenth of a unit inside the transition distance
HeightBoundaryWitness ==
    /\ height.called
    /\ height.minDistance = transitionDistance * Scale - 1
    /\ height.targetHeight # groundHeight
    /\ carY # height.before

----------------------------------------------------------------------------
(* SpecOverlap: the overlap tests applied to arbitrary distances and radii *)

\* the largest distance tested, in tenths of a unit
MaxOverlapDistance == 45

\* radii of the other body: collectible 0.5, trap 1.0, car 1.2, tree 0.8 to
\* 2.0, bomb 3.0
OverlapRadii(category) ==
    CASE category = "tree" -> {8, 10, 20}
      [] category = "player" -> {carCollisionRadius}
      [] category = "bomb" -> {30}
      [] category = "trap" -> {10}
      [] category = "collectible" -> {5}

\* height differences: other than for collectibles the test takes none
HeightDiffs(category) == IF category = "collectible" THEN {0, 3, 25} ELSE {0}

OverlapTest ==
    \E category \in Categories, distance \in 0 .. MaxOverlapDistance :
        \E radius \in OverlapRadii(category), heightDiff \in HeightDiffs(category) :
            /\ overlap' = [called |-> TRUE, category |-> category,
                           distance |-> distance, radius |-> radius,
                           heightDiff |-> heightDiff,
                           hit |-> Overlaps(category, distance, radius, heightDiff)]
            /\ UNCHANGED <<relayVars, lastSent, now, notSceneVars, onTrackVars,
                           heightVars, sweep>>

OverlapNext == OverlapTest

SpecOverlap == RelayInit /\ [][OverlapNext]_vars

----------------------------------------------------------------------------
(* Claims about the overlap tests *)

\* C14: every overlap test (tree, trap, bomb, other vehicle, collectible)
\* reports a collision exactly when the distance is below the sum of the car's
\* radius and the other body's radius; so a hazard of radius 1.0 at distance
\* exactly 2.0 collides with the car of radius 1.2.
OverlapIsBelowSumOfRadii ==
    overlap.called =>
        (overlap.hit <=> overlap.distance < carCollisionRadius + overlap.radius)

----------------------------------------------------------------------------
(* SpecRegistry: every relay handler that reads the registry, the          *)
(* collision report included, under arbitrary events                       *)

RegistryNext ==
    \/ RelayConnect
    \/ RelayJoin
    \/ RelayHeadlights
    \/ RelayMovement
    \/ RelayVehicle
    \/ RelayHorn
    \/ RelayCollision
    \/ RelayDisconnect

SpecRegistry == RelayInit /\ [][RegistryNext]_vars

----------------------------------------------------------------------------
(* Claims about the registry *)

\* C15: no relay handler adds, removes or changes the registry entry of a
\* participant other than the connection the event came from, whatever ids
\* the event names.
OnlySendersEntryChanges ==
    [][\A p \in Sockets \ {handled'.from} :
          /\ (p \in DOMAIN players <=> p \in DOMAIN players')
          /\ (p \in DOMAIN players => players'[p] = players[p])]_vars

\* a joined participant reported a collision with another joined participant
\* at a position that is not the other's
ForeignCollisionWitness ==
    /\ handled.event = "carCollision"
    /\ handled.from \in Joined
    /\ handled.data.collidedWithId \in Joined \ {handled.from}
    /\ players[handled.data.collidedWithId].position # handled.data.position

----------------------------------------------------------------------------
(* One client's collisions with other cars: src/js/game.js                 *)
(* (checkPlayerCollisions, handlePlayerCollision, disableControls) and     *)
(* src/js/modules/multiplayer.js ('playerCollidedWithYou',                 *)
(* emitCarCollision). The cars are on one line: a position is its x in     *)
(* tenths of a unit, and an argument that may be undefined is the set of   *)
(* at most one position.                                                   *)

\* this.collisionBounceStrength = 0.5
collisionBounceStrength == 5

\* subVectors(car.position, otherPos).normalize(): the zero vector stays zero
PushDirection(x, otherX) == IF x > otherX THEN 1 ELSE IF x < otherX THEN -1 ELSE 0

\* handlePlayerCollision(car, otherPos), the definition the class ends up
\* with (the later of the two of that name): what happens to the car's
\* position and the controls. subVectors reads .x of both arguments, so it
\* throws a TypeError before anything is changed when one is undefined.
handlePlayerCollision(car, otherPos) ==
    IF controlsDisabled
    THEN [threw |-> FALSE, disable |-> FALSE, pushed |-> {}]
    ELSE IF car = {} \/ otherPos = {}
         THEN [threw |-> TRUE, disable |-> FALSE, pushed |-> {}]
         ELSE [threw |-> FALSE, disable |-> TRUE,
               pushed |-> {x + PushDirection(x, o) * collisionBounceStrength :
                             x \in car, o \in otherPos}]

\* the state after handlePlayerCollision for a car that was at x
AfterPlayerCollision(x, response) ==
    /\ carPosition' = [carPosition EXCEPT
                         !.x = IF response.pushed = {} THEN x
                               ELSE CHOOSE p \in response.pushed : TRUE]
    /\ controlsDisabled' = (controlsDisabled \/ response.disable)
    /\ controlsDisabledTimeout' = IF response.disable
                                  THEN now + collisionRecoveryTime
                                  ELSE controlsDisabledTimeout

\* the other cars that overlap a car at x
OverlappingPlayers(x) ==
    {id \in DOMAIN otherPlayers :
        Overlaps("player", Distance(x, otherPlayers[id].position), carCollisionRadius, 0)}

\* update: the controls move the car to x unless they are disabled, then
\* checkPlayerCollisions: the first other car that overlaps is handled and
\* reported to the relay (emitCarCollision), whatever handlePlayerCollision did
checkPlayerCollisions(x) ==
    LET car == IF controlsDisabled THEN carPosition.x ELSE x
        hits == OverlappingPlayers(car)
    IN  IF hits = {}
        THEN /\ carPosition' = [carPosition EXCEPT !.x = car]
             /\ UNCHANGED <<controlsDisabled, controlsDisabledTimeout, upstream>>
        ELSE \E id \in hits :
               /\ AfterPlayerCollision(car, handlePlayerCollision(
                     {car}, {otherPlayers[id].position}))
               /\ upstream' =
                    IF Connected
                    THEN [upstream EXCEPT ![LocalId] =
                            Append(@, [event |-> "carCollision",
                                       data |-> [collidedWithId |-> id,
                                                 position |-> carPosition'.x]])]
                    ELSE upstream

\* socket.on('playerCollidedWithYou'): the 'playerCollision' document event,
\* whose listener is handlePlayerCollision bound to the engine and called
\* with the event alone: the event has no position and otherPos is undefined
OnPlayerCollidedWithYou(data) ==
    /\ AfterPlayerCollision(carPosition.x, handlePlayerCollision({}, {}))
    /\ UNCHANGED upstream

----------------------------------------------------------------------------
(* SpecCollide: the local client s1 and the car of s2, both joined: s1     *)
(* drives, s2 reports collisions with s1 to the relay                      *)

\* the clock stops after this many steps of FrameMs
MaxCollideTicks == 3

\* where the controls can put the car, and where the other car is
CollideXs == {0, 10, 30}

\* the relay's entry of a joined client
JoinedEntry(s) ==
    [id |-> s, vehicleId |-> "sports-car", position |-> 0, rotation |-> 0,
     headlightsOn |-> TRUE]

\* s1 and s2 have joined, s1 shows the car of s2
CollideInit ==
    /\ players = [s \in {LocalId, "s2"} |-> JoinedEntry(s)]
    /\ collectiblesState = <<>>
    /\ sockets = [s \in Sockets |-> IF s \in {LocalId, "s2"} THEN "connected" ELSE "idle"]
    /\ emitted = {}
    /\ handled = [event |-> "playerJoin", from |-> "s2",
                  data |-> [vehicleId |-> "sports-car", position |-> 0, rotation |-> 0]]
    /\ lastSent = [s \in Sockets |-> NothingSent]
    /\ now = 0
    /\ CollectiblesInit({})
    /\ EngineInit
    /\ SceneInit
    /\ FurtherInit
    /\ \E x \in CollideXs :
          /\ otherPlayers = ("s2" :> [position |-> x, targetPosition |-> -1])
          /\ otherPlayersData = ("s2" :> [JoinedEntry("s2") EXCEPT !.position = x])
    /\ previous = <<>>
    /\ loading = {}

CollideFrame ==
    \E x \in CollideXs :
        /\ Len(upstream[LocalId]) < MaxQueue
        /\ checkPlayerCollisions(x)
        /\ UNCHANGED <<relayVars, lastSent, now, collected, respawnTimers,
                       playerScore, inbox, awardedAt, canResetCar,
                       offTrackStartTime, cooldownTimers, carRegion,
                       bombsRemaining, bombs, offTrackResets, offTrackRun,
                       remoteVars, onTrack, heightVars, hitVars,
                       furtherVars>>

\* the relay handles the local client's next report
CollideRelayHandles ==
    /\ upstream[LocalId] # <<>>
    /\ OnCarCollision(LocalId, Head(upstream[LocalId]).data)
    /\ upstream' = [upstream EXCEPT ![LocalId] = Tail(@)]
    /\ UNCHANGED <<lastSent, now, collected, respawnTimers, playerScore, inbox,
                   awardedAt, notGameVars>>

\* s2 reports a collision with the local client, the relay notifies it
CollideRemoteReports ==
    \E x \in CollideXs :
        /\ Len(inbox[LocalId]) < MaxQueue
        /\ OnCarCollision("s2", [collidedWithId |-> LocalId, position |-> x])
        /\ inbox' = [inbox EXCEPT ![LocalId] =
                       @ \o IF \E m \in emitted' : m.to = LocalId /\ m.event = "playerCollidedWithYou"
                            THEN <<CHOOSE m \in emitted' :
                                     m.to = LocalId /\ m.event = "playerCollidedWithYou">>
                            ELSE <<>>]
        /\ UNCHANGED <<lastSent, now, collected, respawnTimers, playerScore,
                       upstream, awardedAt, notGameVars>>

\* the local client handles the relay's next notification
CollideNotified ==
    /\ inbox[LocalId] # <<>>
    /\ OnPlayerCollidedWithYou(Head(inbox[LocalId]).payload)
    /\ inbox' = [inbox EXCEPT ![LocalId] = Tail(@)]
    /\ UNCHANGED <<relayVars, lastSent, now, collected, respawnTimers,
                   playerScore, awardedAt, canResetCar, offTrackStartTime,
                   cooldownTimers, carRegion, bombsRemaining, bombs,
                   offTrackResets, offTrackRun, remoteVars, onTrack,
                   heightVars, hitVars,
                       furtherVars>>

CollideControls ==
    /\ ControlsTimerFires
    /\ UNCHANGED <<relayVars, lastSent, now, notEngineVars>>

\* time passes, up to the controls' timer
CollideTick ==
    /\ now + FrameMs <= MaxCollideTicks * FrameMs
    /\ controlsDisabledTimeout # -1 => controlsDisabledTimeout > now
    /\ now' = now + FrameMs
    /\ UNCHANGED <<relayVars, lastSent, clientVars>>

CollideNext ==
    \/ CollideFrame
    \/ CollideRelayHandles
    \/ CollideRemoteReports
    \/ CollideNotified
    \/ CollideControls
    \/ CollideTick

SpecCollide == CollideInit /\ [][CollideNext]_vars

----------------------------------------------------------------------------
(* Claims about collisions between cars *)

\* C18: when the relay's notification of a collision reaches the client that
\* was hit and its controls are enabled, it is pushed away from the reported
\* position by the bounce strength and its controls are disabled for the
\* recovery time.
NotifiedCarIsPushedAndDisabled ==
    [][(Len(inbox'[LocalId]) < Len(inbox[LocalId]) /\ ~controlsDisabled) =>
          /\ controlsDisabled'
          /\ controlsDisabledTimeout' = now + collisionRecoveryTime
          /\ carPosition'.x =
               carPosition.x
                 + PushDirection(carPosition.x, Head(inbox[LocalId]).payload.position)
                     * collisionBounceStrength]_vars

\* C19: while the controls are disabled, an overlap with another car is
\* ignored: no step pushes the car or sends a further report to the relay.
OverlapIgnoredWhileDisabled ==
    [][(controlsDisabled /\ OverlappingPlayers(carPosition.x) # {}) =>
          /\ carPosition' = carPosition
          /\ Len(upstream'[LocalId]) <= Len(upstream[LocalId])]_vars

----------------------------------------------------------------------------
(* One client's collisions with trees, collectibles and traps in a frame:  *)
(* src/js/game.js (checkTreeCollisions, handleTreeCollision),              *)
(* src/js/modules/collectibles.js (checkCollisions) and                    *)
(* src/js/modules/traps.js (checkCollisions). Everything is on the car's   *)
(* line, positions and radii in tenths of a unit.                          *)

\* this.treeCollisionBounceStrength = 0.7
treeCollisionBounceStrength == 7

\* this.trees: two trees of scale 2.5 whose circles overlap
trees == <<[position |-> 50, radius |-> 10], [position |-> 60, radius |-> 10]>>

\* this.trapSpikes: two spikes placed on the same point of the track
trapSpikes == <<[position |-> 200, collisionRadius |-> 10],
                [position |-> 200, collisionRadius |-> 10]>>

\* this.spawnedCollectibles in the order they were pushed
SpawnOrder == <<JsNumber("0"), JsNumber("1")>>

\* where the collectibles are, with their collisionRadius (scale 1.0)
SpawnedAt(id) ==
    IF id = JsNumber("0") THEN [position |-> 100, collisionRadius |-> 5]
    ELSE [position |-> 105, collisionRadius |-> 5]

\* checkTreeCollisions: the trees in array order, up to the first that
\* overlaps (break); handleTreeCollision returns at once while the controls
\* are disabled, else pushes the car away and disables the controls
checkTreeCollisions(x) ==
    LET hits == {i \in DOMAIN trees :
                   Overlaps("tree", Distance(x, trees[i].position), trees[i].radius, 0)}
        first == CHOOSE i \in hits : \A j \in hits : i <= j
    IN  IF hits = {} THEN [x |-> x, disable |-> FALSE, handled |-> 0]
        ELSE IF controlsDisabled THEN [x |-> x, disable |-> FALSE, handled |-> 1]
        ELSE [x |-> x + PushDirection(x, trees[first].position)
                          * treeCollisionBounceStrength,
              disable |-> TRUE, handled |-> 1]

\* CollectiblesManager.checkCollisions: forEach over the spawned items, each
\* uncollected one that overlaps goes to collectItem
CollectiblesHit(c, x) ==
    {id \in Spawned(c) :
        /\ ~collected[c][id]
        /\ Overlaps("collectible", Distance(x, SpawnedAt(id).position),
                    SpawnedAt(id).collisionRadius, 0)}

\* TrapsManager.checkCollisions: forEach over the spikes, each one that
\* overlaps goes to handleCollision, which logs
TrapsHit(x) ==
    {i \in DOMAIN trapSpikes :
        Overlaps("trap", Distance(x, trapSpikes[i].position),
                 trapSpikes[i].collisionRadius, 0)}

\* the collectibleCollected messages of the items picked, in array order:
\* collectItem sends each twice, as CollectItem does
PickupMessages(picked) ==
    LET messages(id) ==
          IF id \in picked
          THEN LET message == [event |-> "collectibleCollected",
                               data |-> [itemId |-> CollectibleId(id)]]
               IN  <<message, message>>
          ELSE <<>>
    IN  messages(SpawnOrder[1]) \o messages(SpawnOrder[2])

\* applyCollectibleEffects of each item picked
PickupPoints(picked) ==
    (IF SpawnOrder[1] \in picked THEN CollectibleData(SpawnOrder[1]).points ELSE 0)
      + (IF SpawnOrder[2] \in picked THEN CollectibleData(SpawnOrder[2]).points ELSE 0)

\* collectItem for every item of picked
CollectItems(c, picked) ==
    /\ collected' = [collected EXCEPT ![c] =
                       [i \in Spawned(c) |-> collected[c][i] \/ i \in picked]]
    /\ playerScore' = [playerScore EXCEPT ![c] = @ + PickupPoints(picked)]
    /\ upstream' = [upstream EXCEPT ![c] = @ \o PickupMessages(picked)]
    /\ respawnTimers' = [respawnTimers EXCEPT ![c] =
                           [i \in Spawned(c) |->
                              IF i \in picked
                              THEN ScheduleRespawn(respawnTimers[c][i], i)
                              ELSE respawnTimers[c][i]]]
    /\ awardedAt' = [i \in SpawnedIds |->
                       IF i \in picked THEN [awardedAt[i] EXCEPT ![c] = now]
                       ELSE awardedAt[i]]

\* update: the order of the collision checks of a frame
CollisionOrder == <<"tree", "player", "bomb", "collectible", "trap">>

\* update: the controls move the car to x unless they are disabled, then the
\* checks of the trees, the collectibles and the traps, in this order
SweepCollisions(x) ==
    LET car == IF controlsDisabled THEN carPosition.x ELSE x
        tree == checkTreeCollisions(car)
        picked == CollectiblesHit(LocalId, tree.x)
    IN  /\ carPosition' = [carPosition EXCEPT !.x = tree.x]
        /\ controlsDisabled' = (controlsDisabled \/ tree.disable)
        /\ controlsDisabledTimeout' = IF tree.disable
                                      THEN now + collisionRecoveryTime
                                      ELSE controlsDisabledTimeout
        /\ CollectItems(LocalId, picked)
        /\ sweep' = [trees |-> tree.handled,
                     collectibles |-> Cardinality(picked),
                     traps |-> Cardinality(TrapsHit(tree.x)),
                     order |-> CollisionOrder]

----------------------------------------------------------------------------
(* SpecSweep: the local client s1 drives among two trees, two collectibles *)
(* and two traps                                                           *)

\* the clock stops after this many steps of FrameMs
MaxSweepTicks == 3

\* where the controls can put the car
SweepXs == {0, 55, 75, 100, 112, 200}

\* s1 has connected and its collectibles have loaded
SweepInit ==
    /\ players = <<>>
    /\ collectiblesState = <<>>
    /\ sockets = [s \in Sockets |-> IF s = LocalId THEN "connected" ELSE "idle"]
    /\ emitted = {}
    /\ handled = [event |-> "connection", from |-> LocalId]
    /\ lastSent = [s \in Sockets |-> NothingSent]
    /\ now = 0
    /\ CollectiblesInit(SpawnedIds)
    /\ LocalClientInit

SweepFrame ==
    \E x \in SweepXs :
        /\ SweepCollisions(x)
        /\ UNCHANGED <<relayVars, lastSent, now, inbox, canResetCar,
                       offTrackStartTime, cooldownTimers, carRegion,
                       bombsRemaining, bombs, offTrackResets, offTrackRun,
                       remoteVars, onTrack, heightVars, overlap,
                       furtherVars>>

SweepControls ==
    /\ ControlsTimerFires
    /\ UNCHANGED <<relayVars, lastSent, now, notEngineVars>>

\* time passes, up to the controls' timer
SweepTick ==
    /\ now + FrameMs <= MaxSweepTicks * FrameMs
    /\ controlsDisabledTimeout # -1 => controlsDisabledTimeout > now
    /\ now' = now + FrameMs
    /\ UNCHANGED <<relayVars, lastSent, clientVars>>

SweepNext ==
    \/ SweepFrame
    \/ SweepControls
    \/ SweepTick

SpecSweep == SweepInit /\ [][SweepNext]_vars

----------------------------------------------------------------------------
(* Claims about the collisions of a frame *)

\* C20: in one frame at most one overlap is handled per category, also when
\* the car overlaps several trees, several traps or several collectibles.
OneResponsePerCategory ==
    /\ sweep.trees <= 1
    /\ sweep.collectibles <= 1
    /\ sweep.traps <= 1

\* the place of a category's check in the last frame
CheckedAt(category) ==
    CHOOSE i \in DOMAIN sweep.order : sweep.order[i] = category

\* C21: in every frame the checks against static hazards (trees, bombs,
\* traps) all run before the check against other cars, and that one before
\* the check against collectibles.
HazardsThenCarsThenCollectibles ==
    sweep.order # <<>> =>
        /\ \A hazard \in {"tree", "bomb", "trap"} :
              CheckedAt(hazard) < CheckedAt("player")
        /\ CheckedAt("player") < CheckedAt("collectible")

\* C22: a frame in which the car is on a trap spike relocates it to the
\* start pose and disables the controls for the recovery time, as a bomb
\* does, instead of bouncing it.
TrapRelocatesAndDisables ==
    [][(sweep'.traps > 0 /\ <<sweep, carPosition>>' # <<sweep, carPosition>>) =>
          /\ carPosition' = [x |-> 0, z |-> -60 * Scale]
          /\ controlsDisabled'
          /\ controlsDisabledTimeout' = now + collisionRecoveryTime]_vars

----------------------------------------------------------------------------
(* SpecRoster: the local client s1 and the relay while s1, s2 and s3 join, *)
(* move and leave. The relay's notification to s1 is handled by s1 before  *)
(* the next event; the models of the other cars load at any later time.    *)

\* all three sockets have connected, none has joined
RosterInit ==
    /\ players = <<>>
    /\ collectiblesState = <<>>
    /\ sockets = [s \in Sockets |-> "connected"]
    /\ emitted = {}
    /\ handled = [event |-> "connection", from |-> "s3"]
    /\ lastSent = [s \in Sockets |-> NothingSent]
    /\ now = 0
    /\ ClientInit

\* a client joins: s1 gets the snapshot of its own join, or the announcement
\* of another's
RosterJoins ==
    \E s \in Sockets \ Joined, t \in Transforms :
        /\ OnPlayerJoin(s, [vehicleId |-> "sports-car", position |-> t.position,
                            rotation |-> t.rotation])
        /\ IF s = LocalId THEN OnCurrentPlayers(players')
                          ELSE OnNewPlayer(players'[s])
        /\ UNCHANGED <<lastSent, now, notRemoteVars>>

\* another client moves; s1 gets playerMoved if the relay forwards it
RosterMoves ==
    \E s \in RemoteIds, t \in Transforms :
        /\ sockets[s] = "connected"
        /\ OnPlayerMovement(s, [position |-> t.position, rotation |-> t.rotation])
        /\ IF \E m \in emitted' : m.to = LocalId
           THEN OnPlayerMoved([id |-> s, position |-> players'[s].position])
           ELSE UNCHANGED remoteVars
        /\ UNCHANGED <<lastSent, now, notRemoteVars>>

\* another client disconnects; s1 gets playerLeft if it had joined
RosterLeaves ==
    \E s \in RemoteIds :
        /\ sockets[s] = "connected"
        /\ OnDisconnect(s)
        /\ IF \E m \in emitted' : m.to = LocalId
           THEN OnPlayerLeft(s)
           ELSE UNCHANGED remoteVars
        /\ UNCHANGED <<lastSent, now, notRemoteVars>>

\* a loader calls back
RosterLoaded ==
    \E l \in loading :
        /\ OtherPlayerLoaded(l.id, l.position)
        /\ UNCHANGED <<relayVars, lastSent, now, notRemoteVars>>

RosterNext ==
    \/ RosterJoins
    \/ RosterMoves
    \/ RosterLeaves
    \/ RosterLoaded

SpecRoster == RosterInit /\ [][RosterNext]_vars

----------------------------------------------------------------------------
(* Claims about the roster of remote actors *)

\* C23: when a movement event arrives for a participant the client knows
\* (announced to it and not gone), the actor's target becomes the event's
\* position, also while the actor's model is still loading.
MovementSetsTargetOfKnown ==
    [][(/\ handled'.event = "playerMovement"
        /\ loading' = loading
        /\ handled'.from \in DOMAIN otherPlayersData
        /\ handled'.from \in DOMAIN players) =>
          /\ handled'.from \in DOMAIN otherPlayers'
          /\ otherPlayers'[handled'.from].targetPosition = handled'.data.position]_vars

----------------------------------------------------------------------------
(* A remote actor's heading: src/js/modules/multiplayer.js (update).       *)
(* Angles are in 1/20 of pi.                                               *)

\* Math.PI
Pi == 20

\* let rotDiff = targetRotation - currentRotation; one turn is taken off if
\* it is above pi, then one is added if it is below -pi
rotDiff(currentRotation, targetRotation) ==
    LET diff == targetRotation - currentRotation
        lowered == IF diff > Pi THEN diff - Pi * 2 ELSE diff
    IN  IF lowered < -Pi THEN lowered + Pi * 2 ELSE lowered

\* socket.on('playerMoved'): player.targetRotation = { y: moveData.rotation.y }
OnPlayerMovedHeading(y) ==
    remoteHeading' = [remoteHeading EXCEPT !.target = {y}]

\* update: player.rotation.y += rotDiff * lerpFactor, for an actor with a target
UpdateHeading ==
    /\ remoteHeading.target # {}
    /\ LET target == CHOOSE y \in remoteHeading.target : TRUE
           diff == rotDiff(remoteHeading.y, target)
       IN  remoteHeading' =
             [remoteHeading EXCEPT
                !.y = RoundHalfEven(LerpDivisor * @ + diff, LerpDivisor),
                !.rotDiff = {diff}]

----------------------------------------------------------------------------
(* SpecHeading: a remote actor whose sender turns by quarter turns, its    *)
(* heading accumulating without bound                                      *)

\* the sender's heading stays within this many quarter turns of 0
MaxQuarterTurns == 6

\* car.rotation.y of the sender: any number of quarter turns
SentHeadings == {q * (Pi \div 2) : q \in -MaxQuarterTurns .. MaxQuarterTurns}

HeadingMoved ==
    \E y \in SentHeadings :
        /\ OnPlayerMovedHeading(y)
        /\ UNCHANGED <<relayVars, lastSent, now, gameVars, engineVars,
                       remoteVars, sceneVars, shieldVars, sendVars,
                       renderVars>>

HeadingUpdate ==
    /\ UpdateHeading
    /\ UNCHANGED <<relayVars, lastSent, now, gameVars, engineVars, remoteVars,
                   sceneVars, shieldVars, sendVars, renderVars>>

HeadingNext ==
    \/ HeadingMoved
    \/ HeadingUpdate

SpecHeading == RelayInit /\ [][HeadingNext]_vars

----------------------------------------------------------------------------
(* Claims about the heading of a remote actor *)

\* C24: the difference used for a heading step lies in [-pi, pi], whatever
\* the magnitude of the target heading.
RotDiffWithinHalfTurn ==
    \A diff \in remoteHeading.rotDiff : -Pi <= diff /\ diff <= Pi

----------------------------------------------------------------------------
(* Further claims about the on-track classification (SpecOnTrack) *)

\* the bound of the last classification: the car's minimum distance to the
\* samples is at most half the width plus the margin, the margin being the
\* wider one exactly when the nearest sample is in the seam region
WithinTrackBound ==
    LET d == minDistanceSquared(carPosition)
        i == minDistanceIndex(carPosition)
        margin == IF i < SeamSamples \/ i > numSamples - SeamSamples
                  THEN SeamMargin * Scale
                  ELSE onTrack.trackMargin
    IN  4 * d <= (onTrack.trackWidth + 2 * margin) * (onTrack.trackWidth + 2 * margin)

\* C25 (as stated): the car is classified on-track if and only if it is
\* within the bound.
OnTrackIffWithinBound ==
    onTrack.called => (onTrack.result <=> WithinTrackBound)

\* C25 (amended): the car is classified on-track if and only if it is inside
\* the start area or within the bound.
OnTrackIffStartAreaOrWithinBound ==
    onTrack.called =>
        (onTrack.result <=> (isNearStartLine(carPosition) \/ WithinTrackBound))

\* a car in the start area, further from the samples than the bound, was
\* classified
StartAreaBeyondBoundWitness ==
    /\ onTrack.called
    /\ isNearStartLine(carPosition)
    /\ ~WithinTrackBound
    /\ onTrack.result

----------------------------------------------------------------------------
(* The bounce of a car collision (SpecCollide) *)

\* a frame of update in which handlePlayerCollision ran with the controls
\* enabled: the controls were disabled by it and the collision was reported
CollisionHandledWithControls ==
    /\ ~controlsDisabled
    /\ controlsDisabled'
    /\ Len(upstream'[LocalId]) > Len(upstream[LocalId])
    /\ Head(upstream'[LocalId]).event = "carCollision"

\* C26: a car collision handled while the controls are enabled leaves the car
\* further from the other car by the bounce strength than the position at
\* which the overlap was detected.
BounceGrowsDistanceByStrength ==
    [][CollisionHandledWithControls =>
          \E x \in CollideXs, id \in DOMAIN otherPlayers :
              /\ id \in OverlappingPlayers(x)
              /\ Distance(carPosition'.x, otherPlayers[id].position)
                   = Distance(x, otherPlayers[id].position) + collisionBounceStrength]_vars

----------------------------------------------------------------------------
(* The shield: src/js/modules/collectibles.js (applyCollectibleEffects,    *)
(* getPlayerStats)                                                         *)

\* the cap of the shield bar: Math.min(this.playerShield, 100)
ShieldCap == 100

\* collectibleData.effectValue || 10
DefaultEffectValue == 10

\* the configuration entries collected here (coins.json): a shield with the
\* default value, a larger shield that also scores, and a coin
ShieldItems ==
    {[effect |-> "shield", effectValue |-> 0,  points |-> 0],
     [effect |-> "shield", effectValue |-> 25, points |-> 10],
     [effect |-> "none",   effectValue |-> 0,  points |-> 50]}

\* applyCollectibleEffects: the points, and for a shield item
\* playerShield += effectValue || 10, the bar showing the capped value
applyCollectibleEffects(c, collectibleData) ==
    /\ ApplyCollectibleEffects(c, collectibleData)
    /\ IF collectibleData.effect = "shield"
       THEN /\ playerShield' = playerShield
                 + (IF collectibleData.effectValue # 0
                    THEN collectibleData.effectValue
                    ELSE DefaultEffectValue)
            /\ shieldBar' = {IF playerShield' < ShieldCap THEN playerShield'
                             ELSE ShieldCap}
       ELSE UNCHANGED shieldVars

\* getPlayerStats()
getPlayerStats ==
    [score |-> playerScore[LocalId], shield |-> playerShield]

----------------------------------------------------------------------------
(* SpecShield: the local client collects shields and coins                 *)

\* items are collected while the shield is below this
MaxShield == 120

\* items are collected while the score is below this
MaxScore == 100

ShieldPickup ==
    \E collectibleData \in ShieldItems :
        /\ playerShield < MaxShield
        /\ playerScore[LocalId] < MaxScore
        /\ applyCollectibleEffects(LocalId, collectibleData)
        /\ UNCHANGED <<relayVars, lastSent, now, collected, respawnTimers,
                       upstream, inbox, awardedAt, engineVars, remoteVars,
                       sceneVars, remoteHeading, sendVars, renderVars>>

ShieldNext == ShieldPickup

SpecShield == RelayInit /\ [][ShieldNext]_vars

\* C27: the shield is never above 100, neither in the manager nor in what
\* getPlayerStats reports.
ShieldAtMostCap ==
    /\ playerShield <= ShieldCap
    /\ getPlayerStats.shield <= ShieldCap

----------------------------------------------------------------------------
(* The ledger over several rounds (SpecGame) *)

\* the relay has just handled a collectibleCollected for an item that keeps
\* its spawn index as id, the ledger's entry of the item was at least a
\* respawn delay old, and the sender picked the item up after that delay:
\* the message is the first of a new round
FirstCollectionOfNewRound ==
    /\ handled'.event = "collectibleCollected"
    /\ Len(upstream'[handled'.from]) < Len(upstream[handled'.from])
    /\ \E i \in SpawnedIds :
          /\ Truthy(i)
          /\ handled'.data.itemId = i
          /\ handled'.before # {}
          /\ \A e \in handled'.before :
                /\ now - e.collectedAt >= RespawnDelay(CollectibleData(i))
                /\ awardedAt[i][handled'.from] - e.collectedAt
                     >= RespawnDelay(CollectibleData(i))

\* C28: the first collectibleCollected of a new round is recorded in the
\* ledger with its sender as collector and the time of its arrival, and is
\* forwarded to every other connected participant.
NewRoundCollectionRecorded ==
    [][FirstCollectionOfNewRound =>
          LET entry == collectiblesState'[PropertyKey(handled'.data.itemId)]
          IN  /\ entry.collected
              /\ entry.collectedBy = handled'.from
              /\ entry.collectedAt = now
              /\ emitted' = Broadcast(handled'.from, "playerCollectedItem",
                                      [itemId |-> handled'.data.itemId,
                                       playerId |-> handled'.from])]_vars

----------------------------------------------------------------------------
(* Sending the car's movement: src/js/modules/multiplayer.js               *)
(* (emitPlayerMovement, update) and the calls of src/js/game.js (update,   *)
(* handleTreeCollision). Times are in ms.                                  *)

\* this.updateInterval = 100
updateInterval == 100

\* window.gameEngine.vehicleManager.playerCar: the vehicle manager keeps its
\* car in currentCar and has no field of this name, so the value is undefined
playerCar == {}

\* a call that sends nothing and leaves lastUpdateTime at last
NothingEmitted(last, called) ==
    [messages |-> <<>>, lastUpdateTime |-> last, suppressed |-> called]

\* (mutant) emitPlayerMovement without the check of the interval
emitPlayerMovementUnlimited(car, last) ==
    IF ~Connected \/ car = {} THEN NothingEmitted(last, FALSE)
    ELSE [messages |-> <<[event |-> "playerMovement",
                          data |-> [position |-> CHOOSE x \in car : TRUE,
                                    rotation |-> 0]]>>,
          lastUpdateTime |-> now,
          suppressed |-> FALSE]

\* emitPlayerMovement(car) with this.lastUpdateTime = last: the message, if
\* one is sent, and the new lastUpdateTime
emitPlayerMovement(car, last) ==
    IF ~Connected \/ car = {} THEN NothingEmitted(last, FALSE)
    ELSE IF now - last > updateInterval
         THEN [messages |-> <<[event |-> "playerMovement",
                               data |-> [position |-> CHOOSE x \in car : TRUE,
                                         rotation |-> 0]]>>,
               lastUpdateTime |-> now,
               suppressed |-> FALSE]
         ELSE NothingEmitted(last, TRUE)

\* MultiplayerManager.update, the end of it: when the interval has passed,
\* lastUpdateTime is set to now and then emitPlayerMovement(playerCar) is
\* called
PeriodicUpdate(last) ==
    IF Connected /\ now - last > updateInterval
    THEN IF playerCar # {}
         THEN emitPlayerMovement(playerCar, now)
         ELSE NothingEmitted(now, FALSE)
    ELSE NothingEmitted(last, FALSE)

\* the record of the sends after a frame that sent the messages sent
AfterSends(sent, suppressed) ==
    [last |-> IF sent = <<>> THEN movementSent.last ELSE now,
     gap |-> IF Len(sent) > 1 THEN {0}
             ELSE IF Len(sent) = 1 /\ movementSent.last # -1
                  THEN {now - movementSent.last}
                  ELSE movementSent.gap,
     suppressed |-> movementSent.suppressed \/ suppressed]

\* GameEngine.update followed by MultiplayerManager.update: the controls
\* move the car to x unless they are disabled; if it moved, emitPlayerMovement;
\* then checkTreeCollisions, whose handler pushes the car, disables the
\* controls and calls emitPlayerMovement; then the periodic update
UpdateAndSend(x) ==
    LET car == IF controlsDisabled \/ inputReleased THEN carPosition.x ELSE x
        hasMoved == car # carPosition.x
        moved == IF hasMoved THEN emitPlayerMovement({car}, lastUpdateTime)
                 ELSE NothingEmitted(lastUpdateTime, FALSE)
        tree == checkTreeCollisions(car)
        bounced == IF tree.disable
                   THEN emitPlayerMovement({tree.x}, moved.lastUpdateTime)
                   ELSE NothingEmitted(moved.lastUpdateTime, FALSE)
        periodic == PeriodicUpdate(bounced.lastUpdateTime)
        sent == moved.messages \o bounced.messages \o periodic.messages
    IN  /\ carPosition' = [carPosition EXCEPT !.x = tree.x]
        /\ controlsDisabled' = (controlsDisabled \/ tree.disable)
        /\ controlsDisabledTimeout' = IF tree.disable
                                      THEN now + collisionRecoveryTime
                                      ELSE controlsDisabledTimeout
        /\ upstream' = [upstream EXCEPT ![LocalId] = @ \o sent]
        /\ lastUpdateTime' = periodic.lastUpdateTime
        /\ movementSent' = AfterSends(sent, moved.suppressed \/ bounced.suppressed
                                              \/ periodic.suppressed)

----------------------------------------------------------------------------
(* SpecSend: the local client s1, joined, drives next to a tree and sends  *)
(* its movement; the relay stores what arrives. SpecSendLive adds that     *)
(* frames, the relay and the clock keep going. The clock has no end: when  *)
(* it has reached the last value of the run, a step of time moves the      *)
(* times the client keeps back instead, which leaves every difference to   *)
(* now as it would be.                                                     *)

\* the clock counts this many steps of SendTickMs before time is kept by
\* moving the stored times back
MaxSendTicks == 4

\* time between two frames of the model
SendTickMs == updateInterval \div 2

\* Date.now() when the page has loaded: more than updateInterval after 0
PageLoad == updateInterval * 10

\* where the controls can put the car: 30 is within reach of the first tree
SendXs == {0, 10, 30}

\* s1 has joined with its car at the start
SendInit ==
    /\ players = (LocalId :> JoinedEntry(LocalId))
    /\ collectiblesState = <<>>
    /\ sockets = [s \in Sockets |-> IF s = LocalId THEN "connected" ELSE "idle"]
    /\ emitted = {}
    /\ handled = [event |-> "playerJoin", from |-> LocalId,
                  data |-> [vehicleId |-> "sports-car", position |-> 0, rotation |-> 0]]
    /\ lastSent = [s \in Sockets |-> NothingSent]
    /\ now = PageLoad
    /\ ClientInit

SendFrame ==
    \E x \in SendXs :
        /\ Len(upstream[LocalId]) + 2 <= MaxQueue
        /\ UpdateAndSend(x)
        /\ UNCHANGED <<relayVars, lastSent, now, collected, respawnTimers,
                       playerScore, inbox, awardedAt, canResetCar,
                       offTrackStartTime, cooldownTimers, carRegion,
                       bombsRemaining, bombs, offTrackResets, offTrackRun,
                       remoteVars, onTrack, heightVars, hitVars,
                       remoteHeading, shieldVars, inputReleased, renderVars>>

\* the relay handles the next message of s1
SendRelayHandles ==
    /\ upstream[LocalId] # <<>>
    /\ OnPlayerMovement(LocalId, Head(upstream[LocalId]).data)
    /\ upstream' = [upstream EXCEPT ![LocalId] = Tail(@)]
    /\ UNCHANGED <<lastSent, now, collected, respawnTimers, playerScore, inbox,
                   awardedAt, notGameVars>>

\* the driver lets go of the keys
SendRelease ==
    /\ ~inputReleased
    /\ inputReleased' = TRUE
    /\ UNCHANGED <<relayVars, lastSent, now, gameVars, engineVars, remoteVars,
                   sceneVars, remoteHeading, shieldVars, lastUpdateTime,
                   movementSent, renderVars>>

\* the re-enable timer of disableControls fires
SendControls ==
    /\ ControlsTimerFires
    /\ UNCHANGED <<relayVars, lastSent, now, notEngineVars>>

\* a time of the past one step of time later, seen from an unchanged now: a
\* time more than updateInterval ago stays, being long ago either way
MovedBack(t) ==
    IF now - t > updateInterval THEN t ELSE t - SendTickMs

\* time passes, up to the controls' timer
SendTick ==
    /\ controlsDisabledTimeout # -1 => controlsDisabledTimeout > now
    /\ IF now + SendTickMs <= PageLoad + MaxSendTicks * SendTickMs
       THEN /\ now' = now + SendTickMs
            /\ UNCHANGED <<lastUpdateTime, movementSent, controlsDisabledTimeout>>
       ELSE /\ now' = now
            /\ lastUpdateTime' = MovedBack(lastUpdateTime)
            /\ movementSent' = [movementSent EXCEPT
                                  !.last = IF @ = -1 THEN -1 ELSE MovedBack(@)]
            /\ controlsDisabledTimeout' =
                  IF controlsDisabledTimeout = -1 THEN -1
                  ELSE controlsDisabledTimeout - SendTickMs
    /\ UNCHANGED <<relayVars, lastSent, gameVars, canResetCar,
                   offTrackStartTime, controlsDisabled, cooldownTimers,
                   carRegion, bombsRemaining, bombs, offTrackResets,
                   offTrackRun, remoteVars, sceneVars, remoteHeading,
                   shieldVars, inputReleased, renderVars>>

SendNext ==
    \/ SendFrame
    \/ SendRelayHandles
    \/ SendRelease
    \/ SendControls
    \/ SendTick

SpecSend == SendInit /\ [][SendNext]_vars

SpecSendLive ==
    /\ SpecSend
    /\ WF_vars(SendFrame)
    /\ WF_vars(SendRelayHandles)
    /\ WF_vars(SendControls)
    /\ WF_vars(SendTick)

----------------------------------------------------------------------------
(* Claims about the movement messages *)

\* C29: any two playerMovement messages the client sends are more than the
\* update interval apart, whichever call of emitPlayerMovement sends them.
SendsFurtherApartThanInterval ==
    \A gap \in movementSent.gap : gap > updateInterval

\* two messages were sent and a call in between sent nothing
SuppressedSendWitness ==
    /\ movementSent.gap # {}
    /\ movementSent.suppressed

\* C30: once the driver has let go of the keys, the relay's stored position
\* of the client eventually equals the car's position.
ReleasedCarReachesRelay ==
    inputReleased ~> (players[LocalId].position = carPosition.x)

----------------------------------------------------------------------------
(* Further claims about the relay's handlers (SpecRegistry) *)

\* the last event was a collision report naming a target without an entry
\* in the registry
CollisionWithMissingTarget ==
    /\ handled.event = "carCollision"
    /\ handled.data.collidedWithId \notin Joined

\* C31: a collision report whose target has no registry entry delivers no
\* playerCollidedWithYou to any connection.
MissingTargetIsNotNotified ==
    CollisionWithMissingTarget =>
        \A m \in emitted : m.event # "playerCollidedWithYou"

\* a joined participant reported a collision with a connection that has
\* left, and the report was handled: the others were told of the collision
MissingTargetWitness ==
    /\ CollisionWithMissingTarget
    /\ handled.from \in Joined
    /\ sockets[handled.data.collidedWithId] = "closed"
    /\ \E m \in emitted : m.event = "playersCollided"

----------------------------------------------------------------------------
(* Further claims about the roster of remote actors (SpecRoster) *)

\* C32: once the client has processed playerLeft(id) it holds neither an
\* actor nor participant data for id, whether the model of id had loaded
\* before the leave or not. (In SpecRoster a closed socket that had joined
\* is one whose playerLeft the client has processed.)
NothingHeldOfLeftParticipant ==
    \A id \in RemoteIds :
        sockets[id] = "closed" =>
            /\ id \notin DOMAIN otherPlayers
            /\ id \notin DOMAIN otherPlayersData

----------------------------------------------------------------------------
(* What a client shows of the others: src/js/modules/multiplayer.js        *)
(* (addOtherPlayer, createNameLabel, loadOtherPlayerCar, and the handlers  *)
(* of 'playerVehicleChanged' and 'playerLeft'), counted per remote id.     *)

\* createNameLabel for each of ids: a new element is appended to the
\* document; nameLabels[id] then refers to the new one only
createNameLabel(ids) ==
    [rendered EXCEPT !.labels = [id \in Sockets |->
                                   IF id \in ids THEN @[id] + 1 ELSE @[id]]]

\* socket.on('currentPlayers') and socket.on('newPlayer') with what they
\* show: addOtherPlayer of each player
AddOtherPlayers(infos) ==
    /\ addOtherPlayer(infos)
    /\ rendered' = createNameLabel({i.id : i \in infos})

\* the load callback with what it shows: this.scene.add(car)
OtherPlayerCarLoaded(id, position) ==
    /\ OtherPlayerLoaded(id, position)
    /\ rendered' = [rendered EXCEPT !.cars[id] = @ + 1]

\* socket.on('playerVehicleChanged'): for a player whose car has loaded, the
\* car is taken out of the scene and the new model starts to load;
\* otherPlayers[id] keeps the old car until the loader calls back
OnPlayerVehicleChanged(changeData) ==
    IF changeData.id \in DOMAIN otherPlayers
    THEN /\ rendered' = [rendered EXCEPT
                           !.cars[changeData.id] = IF @ > 0 THEN @ - 1 ELSE @]
         /\ otherPlayersData' =
              [otherPlayersData EXCEPT ![changeData.id].vehicleId = changeData.vehicleId]
         /\ loading' = loading \cup
              {[id |-> changeData.id,
                position |-> otherPlayersData[changeData.id].position]}
         /\ UNCHANGED <<otherPlayers, previous>>
    ELSE UNCHANGED <<remoteVars, rendered>>

\* socket.on('playerLeft') with what it takes away: the car and the label
\* the client holds for id
OnPlayerLeftRendered(id) ==
    /\ OnPlayerLeft(id)
    /\ rendered' =
         IF id \in DOMAIN otherPlayers
         THEN [cars |-> [rendered.cars EXCEPT ![id] = IF @ > 0 THEN @ - 1 ELSE @],
               labels |-> [rendered.labels EXCEPT ![id] = IF @ > 0 THEN @ - 1 ELSE @]]
         ELSE rendered

----------------------------------------------------------------------------
(* SpecRejoin: the local client s1 and the relay while the clients join,   *)
(* change their vehicle and leave. A client that changes its vehicle sends *)
(* vehicleChange and, when its new model has loaded (carLoaded ->          *)
(* onCarLoaded -> joinGame), playerJoin again.                             *)

\* a client sends playerJoin while it has less than this many labels at s1
MaxLabels == 2

\* the relay's updates that the client shows, leaving the rest as it is
RejoinUnchanged ==
    UNCHANGED <<lastSent, now, gameVars, engineVars, sceneVars,
                remoteHeading, shieldVars, sendVars>>

\* a client's playerJoin, its first or a later one: s1 gets the snapshot of
\* its own join, or the announcement of another's
RejoinJoins ==
    \E s \in Sockets, t \in Transforms :
        /\ sockets[s] = "connected"
        /\ \A id \in Sockets : rendered.labels[id] < MaxLabels
        /\ OnPlayerJoin(s, [vehicleId |-> "sports-car", position |-> t.position,
                            rotation |-> t.rotation])
        /\ IF s = LocalId
           THEN AddOtherPlayers({players'[id] : id \in DOMAIN players' \ {LocalId}})
           ELSE AddOtherPlayers({players'[s]})
        /\ RejoinUnchanged

\* another client's vehicleChange; s1 gets playerVehicleChanged if the relay
\* forwards it
RejoinVehicle ==
    \E s \in RemoteIds, v \in VehicleIds :
        /\ sockets[s] = "connected"
        /\ OnVehicleChange(s, [vehicleId |-> v])
        /\ IF \E m \in emitted' : m.to = LocalId
           THEN OnPlayerVehicleChanged([id |-> s, vehicleId |-> v])
           ELSE UNCHANGED <<remoteVars, rendered>>
        /\ RejoinUnchanged

\* another client disconnects; s1 gets playerLeft if it had joined
RejoinLeaves ==
    \E s \in RemoteIds :
        /\ sockets[s] = "connected"
        /\ OnDisconnect(s)
        /\ IF \E m \in emitted' : m.to = LocalId
           THEN OnPlayerLeftRendered(s)
           ELSE UNCHANGED <<remoteVars, rendered>>
        /\ RejoinUnchanged

\* a loader calls back
RejoinLoaded ==
    \E l \in loading :
        /\ OtherPlayerCarLoaded(l.id, l.position)
        /\ UNCHANGED relayVars
        /\ RejoinUnchanged

RejoinNext ==
    \/ RejoinJoins
    \/ RejoinVehicle
    \/ RejoinLeaves
    \/ RejoinLoaded

SpecRejoin == RosterInit /\ [][RejoinNext]_vars

\* C33: the client has at most one car in the scene and at most one name
\* label in the document per remote participant.
OneActorAndLabelPerParticipant ==
    \A id \in RemoteIds :
        /\ rendered.cars[id] <= 1
        /\ rendered.labels[id] <= 1

----------------------------------------------------------------------------
(* Events of connections that have not joined (SpecLedger) *)

\* the events a joined participant sends
ParticipantEvents ==
    {"playerMovement", "vehicleChange", "headlightsToggle", "hornSound",
     "carCollision", "collectibleCollected"}

\* C34: when the relay handles a participant's event from a connection
\* without a registry entry, the registry and the ledger stay as they are
\* and nothing is emitted.
UnjoinedEventHasNoEffect ==
    [][(/\ relayVars' # relayVars
        /\ handled'.event \in ParticipantEvents
        /\ handled'.from \notin Joined) =>
          /\ players' = players
          /\ collectiblesState' = collectiblesState
          /\ emitted' = {}]_vars


----------------------------------------------------------------------------
(* SpecLateJoin: s1 has joined and plays; s2 connects later, joins and     *)
(* receives the ledger in gameState.                                       *)

LateJoiner == "s2"

\* s1 has joined, s2 has not connected yet
LateInit ==
    /\ players = ("s1" :> JoinedEntry("s1"))
    /\ collectiblesState = <<>>
    /\ sockets = [s \in Sockets |-> IF s = "s1" THEN "connected" ELSE "idle"]
    /\ emitted = {}
    /\ handled = [event |-> "playerJoin", from |-> "s1"]
    /\ lastSent = [s \in Sockets |-> NothingSent]
    /\ now = 0
    /\ \E loaded \in SpawnedIds : CollectiblesInit({loaded})
    /\ LocalClientInit

\* io.on('connection') for the late client
LateConnect ==
    /\ Connect(LateJoiner)
    /\ UNCHANGED <<lastSent, now, clientVars>>

\* the car of a connected client touches a collectible
LatePickup ==
    \E c \in GameClients, id \in SpawnedIds :
        /\ sockets[c] = "connected"
        /\ id \in Spawned(c)
        /\ Len(upstream[c]) + 2 <= MaxQueue
        /\ CollectItem(c, id)
        /\ UNCHANGED <<relayVars, lastSent, now, notGameVars>>

\* onCarLoaded -> joinGame, once the socket is connected
LateJoin ==
    /\ sockets[LateJoiner] = "connected"
    /\ LateJoiner \notin Joined
    /\ \A k \in DOMAIN upstream[LateJoiner] : upstream[LateJoiner][k].event # "playerJoin"
    /\ Len(upstream[LateJoiner]) < MaxQueue
    /\ JoinGame(LateJoiner, [vehicleId |-> "sports-car", position |-> 0, rotation |-> 0])
    /\ UNCHANGED <<relayVars, lastSent, now, notGameVars>>

LateNext ==
    \/ LateConnect
    \/ LatePickup
    \/ LateJoin
    \/ GameRelayHandles
    \/ GameClientHandles
    \/ GameRespawn
    \/ GameTick

SpecLateJoin == LateInit /\ [][LateNext]_vars

\* the late client handles the gameState of its join
JoinerProcessesGameState ==
    /\ inbox[LateJoiner] # <<>>
    /\ Head(inbox[LateJoiner]).event = "gameState"
    /\ inbox' = [inbox EXCEPT ![LateJoiner] = Tail(@)]
    /\ upstream' = upstream

\* no message is on its way and no respawn timer is due
Settled ==
    /\ \A c \in GameClients : upstream[c] = <<>> /\ inbox[c] = <<>>
    /\ \A c \in GameClients : \A i \in Spawned(c) :
          respawnTimers[c][i] # <<>> => Head(respawnTimers[c][i]) > now

\* C35: when the joiner has processed the gameState of its join and no
\* message is in flight, every collectible is collected at the joiner exactly
\* if it is collected at the client that was already there.
JoinerSeesWhatOthersSee ==
    [][(JoinerProcessesGameState /\ Settled') =>
          \A i \in Spawned(LateJoiner) :
              collected'[LateJoiner][i] = collected'["s1"][i]]_vars


\* client c collects an item itself in this step: collectItem awards the
\* points
CollectsLocally(c) == playerScore'[c] # playerScore[c]

\* C36: a local collection puts exactly one collectibleCollected message on
\* the client's connection to the relay.
OneMessagePerCollection ==
    [][\A c \in GameClients :
          CollectsLocally(c) =>
              \E m \in {upstream'[c][k] : k \in DOMAIN upstream'[c]} :
                  /\ m.event = "collectibleCollected"
                  /\ upstream'[c] = Append(upstream[c], m)]_vars


\* the item becomes collectible again at client c in this step
BecomesCollectible(c, i) == collected[c][i] /\ ~collected'[c][i]

\* C37: an item becomes collectible again at a client only when every
\* collection of it at that client, local or notified, lies at least its
\* respawn delay back: no timer set by a collection is still running.
HiddenForRespawnDelay ==
    [][\A c \in GameClients : \A i \in Spawned(c) :
          BecomesCollectible(c, i) =>
              \A k \in DOMAIN respawnTimers[c][i] :
                  respawnTimers[c][i][k] <= now]_vars


\* client c collects item i itself in this step
CollectsItemLocally(c, i) ==
    /\ CollectsLocally(c)
    /\ ~collected[c][i]
    /\ collected'[c][i]

\* C38: every collectibleCollected message a local collection sends carries
\* the id under which the item was spawned, for spawn index 0 as well.
SentItemIdIsOwnId ==
    [][\A c \in GameClients : \A i \in Spawned(c) :
          CollectsItemLocally(c, i) =>
              \A k \in DOMAIN upstream'[c] :
                  k > Len(upstream[c]) => upstream'[c][k].data.itemId = i]_vars


----------------------------------------------------------------------------
(* Claims about bombs *)

\* a step of the bomb counter or of the list of active bombs is a throw that
\* takes one bomb from the counter and adds one active bomb, or a collision
\* that removes one active bomb; with no bomb left nothing is thrown
BombStep ==
    /\ bombsRemaining' # bombsRemaining =>
          bombsRemaining' = bombsRemaining - 1 /\ bombs' = bombs + 1
    /\ bombs' > bombs =>
          bombs' = bombs + 1 /\ bombsRemaining' = bombsRemaining - 1
    /\ bombs' < bombs =>
          bombs' = bombs - 1 /\ bombsRemaining' = bombsRemaining
    /\ bombsRemaining = 0 =>
          bombsRemaining' = 0 /\ bombs' <= bombs

\* C39: the bomb counter stays between 0 and 3; a throw takes exactly one
\* bomb from it and adds exactly one active bomb, no throw happens at 0, and
\* a collision with a bomb removes exactly one active bomb.
BombCounterWithinBounds ==
    /\ [](bombsRemaining \in 0..StartBombs)
    /\ [][BombStep]_vars

\* all bombs have been thrown and the car has driven into one of them
BombsWitness == bombsRemaining = 0 /\ bombs = StartBombs - 1

====
